---- MODULE Spec2Model ----
(***************************************************************************)
(* Federation support for graphql-go: the federated-schema composer        *)
(* (NewFederatedSchema), the directive catalog and the SDL printer         *)
(* (PrintSchema).                                                          *)
(*                                                                         *)
(* Text is modelled as a sequence of lines; every line is a string built   *)
(* by concatenation exactly as the strings.Builder of the printer receives *)
(* it.  A builder content "a\nb\n\n" is the sequence <<"a", "b", "">>.     *)
(***************************************************************************)
EXTENDS Integers, Sequences, FiniteSets, TLC

\* ------------------------------------------------------------------------
\* Bounds
\* ------------------------------------------------------------------------

\* number of NewFederatedSchema calls that return a schema
MaxSchemas == 2

\* number of map iteration orders a composer call chooses from
MaxBuildSeed == 2

\* number of map iteration orders a PrintSchema call chooses from
MaxSeed == 12

\* ------------------------------------------------------------------------
\* Strings: Go compares strings byte-wise.  NameOrder lists every name of
\* the model in ascending byte order (upper case < '_' < lower case).
\* ------------------------------------------------------------------------

NameOrder ==
    << "Absent", "Animal", "Bare", "Book", "Boolean", "Color", "Deep",
       "Empty", "Entity", "FieldSet", "Filter", "Hollow", "ID", "Int",
       "Legacy", "Manual", "Media", "Mixed", "Mutation", "MyMutation",
       "MySubscription", "Nested", "Node", "Note", "One", "Paging",
       "Paper", "Plain", "Product", "Query", "Readable", "Review",
       "RootQuery", "SearchResult", "Shape", "Shelf", "String",
       "Subscription", "Two", "User", "Wrapped", "_Any", "_Entity",
       "_ExtendHelper", "_Service", "__Schema", "_entities", "_service",
       "auth", "blue", "body", "cat", "circle", "composeDirective",
       "contact", "cost", "cover", "deprecated", "description", "dog",
       "dot", "external", "fresh", "green", "id", "inaccessible",
       "include", "index", "key", "label", "late", "limit", "link", "me",
       "name", "offset", "old", "older", "override", "page", "ping",
       "product", "provides", "red", "requires", "scopes", "sdl",
       "shareable", "skip", "spot", "square", "tag", "title", "types" >>

\* the position of every name in NameOrder
RankOf ==
    [s \in {NameOrder[i] : i \in 1..Len(NameOrder)} |->
        CHOOSE i \in 1..Len(NameOrder) : NameOrder[i] = s]

Rank(s) == RankOf[s]

\* s < t on Go strings
StrLess(s, t) == Rank(s) < Rank(t)

\* strings.HasPrefix(name, "__")
HasIntrospectionPrefix(name) == name \in {"__Schema"}

RECURSIVE Join(_, _)
\* strings.Join(elems, sep)
Join(elems, sep) ==
    IF Len(elems) = 0 THEN ""
    ELSE IF Len(elems) = 1 THEN elems[1]
    ELSE elems[1] \o sep \o Join(Tail(elems), sep)

RECURSIVE Repeat(_, _)
\* strings.Repeat(s, n)
Repeat(s, n) == IF n <= 0 THEN "" ELSE s \o Repeat(s, n - 1)

\* the string without the quotes
Quote_bare(s) == s

\* fmt.Sprintf("%q", s) for strings without characters that need escaping
Quote(s) == "\"" \o s \o "\""

RECURSIVE Flatten(_)
\* concatenation of a sequence of sequences
Flatten(ss) == IF Len(ss) = 0 THEN <<>> ELSE ss[1] \o Flatten(Tail(ss))

RECURSIVE TrimLeadingBlank(_)
TrimLeadingBlank(lines) ==
    IF Len(lines) > 0 /\ lines[1] = "" THEN TrimLeadingBlank(Tail(lines))
    ELSE lines

RECURSIVE TrimTrailingBlank(_)
TrimTrailingBlank(lines) ==
    IF Len(lines) > 0 /\ lines[Len(lines)] = ""
    THEN TrimTrailingBlank(SubSeq(lines, 1, Len(lines) - 1))
    ELSE lines

\* strings.TrimSpace on the text: blank lines at both ends disappear (no
\* printed line starts or ends with a blank)
TrimSpace(lines) == TrimTrailingBlank(TrimLeadingBlank(lines))

\* ------------------------------------------------------------------------
\* sort.Slice / sort.Strings: for slices of at most 12 elements the Go
\* library runs an insertion sort.
\* ------------------------------------------------------------------------

\* The toolchain the program was built with decides what sort.Slice does
\* with elements of equal keys: up to Go 1.18 it is quickSort_func, from
\* Go 1.19 on pdqsort_func.  Neither is a stable sort.
VARIABLE toolchain

Toolchains == {"quickSort", "pdqsort"}

RECURSIVE InsertSorted(_, _)
\* insert the pair x = <<key, element>> behind the last pair whose key is
\* not greater than the key of x
InsertSorted(sorted, x) ==
    IF Len(sorted) = 0 THEN <<x>>
    ELSE IF x[1] < sorted[Len(sorted)][1]
         THEN InsertSorted(SubSeq(sorted, 1, Len(sorted) - 1), x)
                  \o <<sorted[Len(sorted)]>>
         ELSE sorted \o <<x>>

RECURSIVE SortPairs(_)
SortPairs(s) ==
    IF Len(s) <= 1 THEN s
    ELSE InsertSorted(SortPairs(SubSeq(s, 1, Len(s) - 1)), s[Len(s)])

\* the pass of quickSort_func over a slice of at most 12 elements, in front
\* of its insertion sort: for i := a + 6; i < b; i++ the elements i and
\* i - 6 are swapped when the one at i is less
ShellPass(s) ==
    [i \in 1..Len(s) |->
        IF i + 6 <= Len(s) /\ s[i + 6][1] < s[i][1] THEN s[i + 6]
        ELSE IF i > 6 /\ s[i][1] < s[i - 6][1] THEN s[i - 6]
        ELSE s[i]]

\* sort.Slice on the pairs <<key, element>>.  Slices of at most 12 elements
\* are sorted by insertion, with quickSort_func behind its pass over the
\* elements six apart.  Of longer slices the model has the keys in
\* ascending order and the elements of equal keys in their order in s.
SortSlice(s) ==
    IF toolchain = "quickSort" /\ Len(s) <= 12
    THEN SortPairs(ShellPass(s))
    ELSE SortPairs(s)

\* sort.Slice(s, func(i, j) bool { return s[i].Name < s[j].Name })
SortByName(s) ==
    LET sorted == SortSlice([i \in 1..Len(s) |-> <<Rank(s[i].name), s[i]>>])
    IN  [i \in 1..Len(s) |-> sorted[i][2]]

\* the strings stay as they are
SortStrings_unsorted(s) == s

\* sort.Strings(s)
SortStrings(s) ==
    LET sorted == SortPairs([i \in 1..Len(s) |-> <<Rank(s[i]), s[i]>>])
    IN  [i \in 1..Len(s) |-> sorted[i][2]]

\* ------------------------------------------------------------------------
\* Go map iteration: the order of a range over a map is unspecified.
\* RangeOrder(S, seed) is the seed-th order of the keys S: even seeds walk
\* the permutations of S in factoradic order, odd seeds walk their
\* reversals, so seeds 0 .. 2 * n! - 1 give every order of n keys.
\* ------------------------------------------------------------------------

\* the elements of S in ascending order
SetToSortedSeq(S) == SelectSeq(NameOrder, LAMBDA n : n \in S)

RemoveAt(s, i) == SubSeq(s, 1, i - 1) \o SubSeq(s, i + 1, Len(s))

RECURSIVE Lehmer(_, _)
Lehmer(s, code) ==
    IF Len(s) = 0 THEN <<>>
    ELSE LET i == (code % Len(s)) + 1
         IN  <<s[i]>> \o Lehmer(RemoveAt(s, i), code \div Len(s))

Reverse(s) == [i \in 1..Len(s) |-> s[Len(s) + 1 - i]]

RangeOrder(S, seed) ==
    LET base == Lehmer(SetToSortedSeq(S), seed \div 2)
    IN  IF seed % 2 = 1 THEN Reverse(base) ELSE base

\* ------------------------------------------------------------------------
\* The type system of the graphql package, as far as the composer and the
\* printer read it.
\* ------------------------------------------------------------------------

\* type references: a named type, NewNonNull(of), NewList(of)
Named(n) == [k |-> "named", n |-> n]
NonNull(t) == [k |-> "nonnull", of |-> t]
ListOf(t) == [k |-> "list", of |-> t]

RECURSIVE TypeName(_)
\* Type.Name() and Type.String(): "T", "T!" and "[T]"
TypeName(t) ==
    IF t.k = "named" THEN t.n
    ELSE IF t.k = "nonnull" THEN TypeName(t.of) \o "!"
    ELSE "[" \o TypeName(t.of) \o "]"

\* values of applied-directive arguments (interface{}): string, bool,
\* number, slice, nil
StrV(s) == [k |-> "str", v |-> s]
BoolV(b) == [k |-> "bool", v |-> b]
NumV(n) == [k |-> "num", v |-> n]
ListV(l) == [k |-> "list", v |-> l]
NilV == [k |-> "nil"]

\* graphql.AppliedDirective
Applied(name, args) == [name |-> name, args |-> args]
\* graphql.AppliedDirectiveArgument
AppliedArg(name, value) == [name |-> name, value |-> value]

\* graphql.Argument
Arg(name, type) == [name |-> name, type |-> type, defaultValue |-> NilV]

\* graphql.Directive
Directive(name, description, args, locations, repeatable) ==
    [name |-> name, description |-> description, args |-> args,
     locations |-> locations, repeatable |-> repeatable]

\* no type object: the type of the field is one of the static types
NoObject == [kind |-> "none"]

NoResolve == [k |-> "none", sdl |-> <<>>]
UserResolve(tag) == [k |-> tag, sdl |-> <<>>]

\* graphql.Field / graphql.FieldDefinition / graphql.InputObjectField;
\* typeObj is the type object the field points to when that object was
\* made by a composer call (the _Entity union)
Field(name, type) ==
    [name |-> name, type |-> type, typeObj |-> NoObject, args |-> <<>>,
     description |-> <<>>, deprecationReason |-> "", applied |-> <<>>,
     resolve |-> NoResolve]

\* graphql.EnumValueDefinition
EnumValue(name) ==
    [name |-> name, description |-> <<>>, deprecationReason |-> "",
     applied |-> <<>>]

\* a field map with the given fields under their names
FieldMap(fs) ==
    [n \in {fs[i].name : i \in 1..Len(fs)} |->
        LET i == CHOOSE j \in 1..Len(fs) : fs[j].name = n IN fs[i]]

\* graphql.Object, Interface, Union, Enum, InputObject and Scalar share one
\* record shape; each kind reads its own parts
Type(kind, name) ==
    [kind |-> kind, name |-> name, description |-> <<>>, extend |-> FALSE,
     applied |-> <<>>, interfaces |-> <<>>, fields |-> <<>>,
     values |-> <<>>, types |-> <<>>]

\* a *graphql.Object held by reference: the query root lives on the heap
Ref(id) == [kind |-> "Ref", id |-> id]

\* a pointer to one of the static type objects
Static(name) == [kind |-> "Static", name |-> name]

\* Object.AddFieldConfig(fieldName, fieldConfig)
AddFieldConfig(obj, fieldName, fieldConfig) ==
    [obj EXCEPT !.fields =
        [n \in DOMAIN obj.fields \cup {fieldName} |->
            IF n = fieldName THEN fieldConfig ELSE obj.fields[n]]]

\* ------------------------------------------------------------------------
\* Directive catalog
\* ------------------------------------------------------------------------

ComposeDirectiveDefinition ==
    Directive("composeDirective", <<>>,
              << Arg("name", NonNull(Named("String"))) >>,
              << "SCHEMA" >>, TRUE)

ContactDirectiveDefinition ==
    Directive("contact",
              << "Provides contact information of the owner responsible for this subgraph schema." >>,
              << Arg("name", NonNull(Named("String"))),
                 Arg("url", Named("String")),
                 Arg("description", Named("String")) >>,
              << "SCHEMA" >>, FALSE)

ExternalDirectiveDefinition ==
    Directive("external",
              << "Marks target field as external meaning it will be resolved by federated schema" >>,
              <<>>, << "FIELD_DEFINITION" >>, FALSE)

InaccessibleDirectiveDefinition ==
    Directive("inaccessible",
              << "Marks location within schema as inaccessible from the GraphQL Gateway" >>,
              <<>>,
              << "FIELD_DEFINITION", "OBJECT", "INTERFACE", "UNION", "ENUM",
                 "ENUM_VALUE", "SCALAR", "INPUT_OBJECT",
                 "INPUT_FIELD_DEFINITION", "ARGUMENT_DEFINITION" >>, FALSE)

KeyDirectiveDefinition ==
    Directive("key",
              << "Space separated list of primary keys needed to access federated object" >>,
              << Arg("fields", NonNull(Named("FieldSet"))),
                 [Arg("resolvable", Named("Boolean")) EXCEPT
                     !.defaultValue = BoolV(TRUE)] >>,
              << "OBJECT", "INTERFACE" >>, TRUE)

LinkDirectiveDefinition ==
    Directive("link", <<>>,
              << Arg("url", NonNull(Named("String"))),
                 Arg("import", ListOf(Named("String"))) >>,
              << "SCHEMA" >>, TRUE)

OverrideDirectiveDefinition ==
    Directive("override",
              << "Overrides fields resolution logic from other subgraph. Used for migrating fields from one subgraph to another." >>,
              << Arg("from", NonNull(Named("String"))) >>,
              << "FIELD_DEFINITION" >>, FALSE)

ProvidesDirectiveDefinition ==
    Directive("provides",
              << "Specifies locally selectable fields on a given entity" >>,
              << Arg("fields", NonNull(Named("FieldSet"))) >>,
              << "FIELD_DEFINITION" >>, FALSE)

RequiresDirectiveDefinition ==
    Directive("requires",
              << "Specifies external federated fields required for computing this field value" >>,
              << Arg("fields", NonNull(Named("FieldSet"))) >>,
              << "FIELD_DEFINITION" >>, FALSE)

ShareableDirectiveDefinition ==
    Directive("shareable",
              << "Indicates that given object and/or field can be resolved by multiple subgraphs" >>,
              <<>>, << "FIELD_DEFINITION", "OBJECT" >>, FALSE)

TagDirectiveDefinition ==
    Directive("tag",
              << "Allows users to annotate fields and types with additional metadata information" >>,
              << Arg("name", NonNull(Named("String"))) >>,
              << "FIELD_DEFINITION", "OBJECT", "INTERFACE", "UNION",
                 "ARGUMENT_DEFINITION", "SCALAR", "ENUM", "ENUM_VALUE",
                 "INPUT_OBJECT", "INPUT_FIELD_DEFINITION" >>, TRUE)

\* the execution directives of the graphql package (a back quote of a
\* description is written ' here)
DeprecatedDirective ==
    Directive("deprecated",
              << "Marks an element of a GraphQL schema as no longer supported." >>,
              << Arg("reason", Named("String")) >>,
              << "FIELD_DEFINITION", "ENUM_VALUE" >>, FALSE)

IncludeDirective ==
    Directive("include",
              << "Directs the executor to include this field or fragment only when the 'if' argument is true." >>,
              << Arg("if", NonNull(Named("Boolean"))) >>,
              << "FIELD", "FRAGMENT_SPREAD", "INLINE_FRAGMENT" >>, FALSE)

SkipDirective ==
    Directive("skip",
              << "Directs the executor to skip this field or fragment when the 'if' argument is true." >>,
              << Arg("if", NonNull(Named("Boolean"))) >>,
              << "FIELD", "FRAGMENT_SPREAD", "INLINE_FRAGMENT" >>, FALSE)

SpecifiedDirectives == << IncludeDirective, SkipDirective, DeprecatedDirective >>

\* the static directive objects; a schema keeps pointers to them
KnownDirectives ==
    << ComposeDirectiveDefinition, ContactDirectiveDefinition,
       ExternalDirectiveDefinition, InaccessibleDirectiveDefinition,
       KeyDirectiveDefinition, LinkDirectiveDefinition,
       OverrideDirectiveDefinition, ProvidesDirectiveDefinition,
       RequiresDirectiveDefinition, ShareableDirectiveDefinition,
       TagDirectiveDefinition, DeprecatedDirective, IncludeDirective,
       SkipDirective >>

StaticDirective(name) == [static |-> name]

DirectivePointer(d) ==
    IF \E j \in 1..Len(KnownDirectives) : KnownDirectives[j] = d
    THEN StaticDirective(d.name) ELSE d

DirectivePointers(directives) ==
    [i \in 1..Len(directives) |-> DirectivePointer(directives[i])]

DerefDirective(d) ==
    IF "static" \in DOMAIN d
    THEN KnownDirectives[CHOOSE j \in 1..Len(KnownDirectives) :
                             KnownDirectives[j].name = d.static]
    ELSE d

\* schema.Directives()
Directives(schema) ==
    [i \in 1..Len(schema.directives) |-> DerefDirective(schema.directives[i])]

ComposeDirectiveAppliedDirective(name) ==
    Applied("composeDirective", << AppliedArg("name", StrV(name)) >>)

ContactAppliedDirective(name, url, description) ==
    Applied("contact", << AppliedArg("name", StrV(name)),
                          AppliedArg("url", StrV(url)),
                          AppliedArg("description", StrV(description)) >>)

ExternalAppliedDirective == Applied("external", <<>>)

InaccessibleAppliedDirective == Applied("inaccessible", <<>>)

KeyAppliedDirective(fieldSet, resolvable) ==
    Applied("key", << AppliedArg("fields", StrV(fieldSet)),
                      AppliedArg("resolvable", BoolV(resolvable)) >>)

LinkAppliedDirective(url, imports) ==
    Applied("link",
            << AppliedArg("url", StrV(url)),
               AppliedArg("import",
                          ListV([i \in 1..Len(imports) |-> StrV(imports[i])])) >>)

OverrideAppliedDirective(from) ==
    Applied("override", << AppliedArg("from", StrV(from)) >>)

ProvidesAppliedDirective(fieldSet) ==
    Applied("provides", << AppliedArg("fields", StrV(fieldSet)) >>)

RequiresAppliedDirective(fieldSet) ==
    Applied("requires", << AppliedArg("fields", StrV(fieldSet)) >>)

ShareableAppliedDirective == Applied("shareable", <<>>)

TagAppliedDirective(value) ==
    Applied("tag", << AppliedArg("name", StrV(value)) >>)

\* ------------------------------------------------------------------------
\* Federated types
\* ------------------------------------------------------------------------

AnyType ==
    [Type("Scalar", "_Any") EXCEPT !.description =
        << "The '_Any' scalar is used to pass representations of entities from external services into the root _entities field for execution." >>]

FieldSetType ==
    [Type("Scalar", "FieldSet") EXCEPT !.description =
        << "String-serialized scalar represents a set of fields that's passed to a federated directive, such as @key, @requires, or @provides" >>]

ServiceType ==
    [Type("Object", "_Service") EXCEPT !.fields =
        FieldMap(<< Field("sdl", NonNull(Named("String"))) >>)]

federationLinkAppliedDirective ==
    LinkAppliedDirective(
        "https://specs.apollo.dev/federation/v2.1",
        << "@composeDirective", "@external", "@inaccessible", "@key",
           "@override", "@provides", "@requires", "@shareable", "@tag",
           "FieldSet" >>)

\* ------------------------------------------------------------------------
\* State
\* ------------------------------------------------------------------------

VARIABLES
    heap,      \* the *graphql.Object values that serve as query roots
    schemas,   \* the schemas NewFederatedSchema has returned, in call order
    sdl,       \* sdl[i]: the variable sdl of the call that returned schemas[i]
    result     \* what the last operation handed to its caller

vars == << heap, schemas, sdl, result, toolchain >>

\* ------------------------------------------------------------------------
\* The caller's types
\* ------------------------------------------------------------------------

ProductType ==
    [Type("Object", "Product") EXCEPT
        !.applied = << KeyAppliedDirective("id", TRUE) >>,
        !.fields = FieldMap(<< Field("id", NonNull(Named("ID"))),
                               Field("description", Named("String")) >>)]

UserType ==
    [Type("Object", "User") EXCEPT
        !.applied = << TagAppliedDirective("red"),
                       KeyAppliedDirective("id", TRUE) >>,
        !.fields = FieldMap(<< Field("id", NonNull(Named("ID"))),
                               Field("name", Named("String")) >>)]

\* an "extend" stub that carries @key
ReviewType ==
    [Type("Object", "Review") EXCEPT
        !.extend = TRUE,
        !.applied = << KeyAppliedDirective("id", TRUE) >>,
        !.fields = FieldMap(<< Field("id", NonNull(Named("ID"))) >>)]

\* an interface that carries @key
NodeType ==
    [Type("Interface", "Node") EXCEPT
        !.applied = << KeyAppliedDirective("id", TRUE) >>,
        !.fields = FieldMap(<< Field("id", NonNull(Named("ID"))) >>)]

\* an object without @key
PlainType ==
    [Type("Object", "Plain") EXCEPT
        !.applied = << ShareableAppliedDirective >>,
        !.fields = FieldMap(<< Field("name", Named("String")) >>)]

\* the caller's query roots: one that reaches Product, one that reaches no
\* other type
ProductQuery ==
    [Type("Object", "Query") EXCEPT !.fields =
        FieldMap(<< [Field("product", Named("Product")) EXCEPT
                        !.args = << Arg("id", NonNull(Named("ID"))) >>,
                        !.resolve = UserResolve("product")] >>)]

NameQuery ==
    [Type("Object", "RootQuery") EXCEPT !.fields =
        FieldMap(<< [Field("name", Named("String")) EXCEPT
                        !.resolve = UserResolve("name")] >>)]

CallerQueries == << ProductQuery, NameQuery >>

BuiltInScalar(name) == Type("Scalar", name)

IntrospectionSchemaType ==
    [Type("Object", "__Schema") EXCEPT !.fields =
        FieldMap(<< Field("description", Named("String")),
                    Field("types", NonNull(Named("Boolean"))) >>)]

\* the helper object a composer call makes when it finds no entity
ExtendHelperType ==
    [Type("Object", "_ExtendHelper") EXCEPT !.fields =
        FieldMap(<< [Field("id", NonNull(Named("ID"))) EXCEPT
                        !.applied = << ExternalAppliedDirective >>] >>)]

\* the static types a reference by name resolves to (the helper object of
\* an earlier call is reached through the union of that call)
KnownTypes ==
    << ProductType, UserType, ReviewType, NodeType, PlainType, AnyType,
       FieldSetType, ServiceType, ExtendHelperType, IntrospectionSchemaType,
       BuiltInScalar("String"), BuiltInScalar("ID"), BuiltInScalar("Boolean"),
       BuiltInScalar("Int") >>

KnownType(name) ==
    LET i == CHOOSE j \in 1..Len(KnownTypes) : KnownTypes[j].name = name
    IN  KnownTypes[i]

\* the type object behind an entry of a type map
Deref(hp, t) ==
    IF t.kind = "Ref" THEN hp[t.id]
    ELSE IF t.kind = "Static" THEN KnownType(t.name)
    ELSE t

\* ------------------------------------------------------------------------
\* SDL printer
\* ------------------------------------------------------------------------

\* printDescription that does not indent the lines inside the block form
printDescription_unindented(desc, indent) ==
    IF Len(desc) = 0 THEN <<>>
    ELSE IF Len(desc) = 1
         THEN << Repeat(" ", indent) \o "\"" \o desc[1] \o "\"" >>
         ELSE << Repeat(" ", indent) \o "\"\"\"" >>
              \o desc
              \o << Repeat(" ", indent) \o "\"\"\"" >>

printDescription(desc, indent) ==
    IF Len(desc) = 0 THEN <<>>
    ELSE IF Len(desc) = 1
         THEN << Repeat(" ", indent) \o "\"" \o desc[1] \o "\"" >>
         ELSE << Repeat(" ", indent) \o "\"\"\"" >>
              \o [i \in 1..Len(desc) |-> Repeat(" ", indent) \o desc[i]]
              \o << Repeat(" ", indent) \o "\"\"\"" >>

RECURSIVE printAppliedDirectiveArgumentValue(_)
printAppliedDirectiveArgumentValue(arg) ==
    IF arg.k = "list"
    THEN Flatten([i \in 1..Len(arg.v) |->
                     printAppliedDirectiveArgumentValue(arg.v[i])])
    ELSE IF arg.k = "str" THEN << Quote(arg.v) >>
    ELSE IF arg.k = "bool" THEN << IF arg.v THEN "true" ELSE "false" >>
    ELSE << ToString(arg.v) >>

RECURSIVE ValuePanics(_)
\* reflect.TypeOf(nil).Kind() dereferences a nil Type
ValuePanics(arg) ==
    IF arg.k = "nil" THEN TRUE
    ELSE IF arg.k = "list" THEN \E i \in 1..Len(arg.v) : ValuePanics(arg.v[i])
    ELSE FALSE

\* value[0] of an empty result is out of range
ArgumentPanics(arg) ==
    \/ ValuePanics(arg.value)
    \/ Len(printAppliedDirectiveArgumentValue(arg.value)) = 0

printAppliedDirectiveArgument(arg) ==
    LET value == IF ArgumentPanics(arg) THEN << "" >>
                 ELSE printAppliedDirectiveArgumentValue(arg.value)
    IN  IF Len(value) > 1
        THEN arg.name \o ": [" \o Join(value, ", ") \o "]"
        ELSE arg.name \o ": " \o value[1]

printAppliedDirective(applied) ==
    "@" \o applied.name \o
    (IF Len(applied.args) > 0
     THEN "(" \o Join([i \in 1..Len(applied.args) |->
                          printAppliedDirectiveArgument(applied.args[i])], ", ")
              \o ")"
     ELSE "")

\* the applied directives stay in the order of their declaration
sortAppliedDirectives_unsorted(appliedDirectives) == appliedDirectives

sortAppliedDirectives(appliedDirectives) == SortByName(appliedDirectives)

\* printAppliedDirectives with the deprecation behind the other directives
printAppliedDirectives_deprecatedLast(appliedDirectives, deprecationReason) ==
    (IF Len(appliedDirectives) = 0 THEN ""
     ELSE LET sorted == sortAppliedDirectives(appliedDirectives)
          IN  Join([i \in 1..Len(sorted) |->
                       " " \o printAppliedDirective(sorted[i])], ""))
    \o
    (IF deprecationReason # ""
     THEN " @deprecated(reason: " \o Quote(deprecationReason) \o ")"
     ELSE "")

printAppliedDirectives(appliedDirectives, deprecationReason) ==
    (IF deprecationReason # ""
     THEN " @deprecated(reason: " \o Quote(deprecationReason) \o ")"
     ELSE "")
    \o
    (IF Len(appliedDirectives) = 0 THEN ""
     ELSE LET sorted == sortAppliedDirectives(appliedDirectives)
          IN  Join([i \in 1..Len(sorted) |->
                       " " \o printAppliedDirective(sorted[i])], ""))

AppliedDirectivesPanic(appliedDirectives) ==
    \E i \in 1..Len(appliedDirectives) :
        \E j \in 1..Len(appliedDirectives[i].args) :
            ArgumentPanics(appliedDirectives[i].args[j])

\* schema.QueryType(): the query root object
QueryType(hp, schema) == hp[schema.query]

printSchemaDefinition(hp, schema) ==
    << "schema" \o printAppliedDirectives(schema.applied, "") \o " {",
       "  query: " \o QueryType(hp, schema).name >>
    \o (IF schema.mutation # "" THEN << "  mutation: " \o schema.mutation >>
        ELSE <<>>)
    \o (IF schema.subscription # ""
        THEN << "  subscription: " \o schema.subscription >>
        ELSE <<>>)
    \o << "}", "" >>

\* the directives stay in the order of their registration
sortDirectiveDefinitions_unsorted(directives) == directives

sortDirectiveDefinitions(directives) == SortByName(directives)

\* printDirectiveArgument that shows the default value of the argument
printDirectiveArgument_withDefault(arg) ==
    (IF arg.type.k = "list"
     THEN arg.name \o ": [" \o TypeName(arg.type) \o "]"
     ELSE arg.name \o ": " \o TypeName(arg.type))
    \o (IF arg.defaultValue.k = "nil" THEN ""
        ELSE " = " \o printAppliedDirectiveArgumentValue(arg.defaultValue)[1])

printDirectiveArgument(arg) ==
    IF arg.type.k = "list"
    THEN arg.name \o ": [" \o TypeName(arg.type) \o "]"
    ELSE arg.name \o ": " \o TypeName(arg.type)

printDirectiveDefinition(directive) ==
    printDescription(directive.description, 0)
    \o << "directive @" \o directive.name
          \o (IF Len(directive.args) > 0
              THEN "(" \o Join([i \in 1..Len(directive.args) |->
                                   printDirectiveArgument(directive.args[i])],
                               ", ") \o ")"
              ELSE "")
          \o (IF directive.repeatable THEN " repeatable" ELSE "")
          \o " on " \o Join(directive.locations, " | "),
          "" >>

printDirectiveDefinitions(directives) ==
    LET sorted == sortDirectiveDefinitions(directives)
    IN  Flatten([i \in 1..Len(sorted) |-> printDirectiveDefinition(sorted[i])])

\* the keys of a field map in the order of one range over it
RangeKeys(fieldMap, seed) == RangeOrder(DOMAIN fieldMap, seed)

printEnumValue(enumValue) ==
    printDescription(enumValue.description, 2)
    \o << "  " \o enumValue.name
          \o printAppliedDirectives(enumValue.applied,
                                    enumValue.deprecationReason) >>

printEnumDefinition(enum) ==
    LET sortedValues == SortByName(enum.values)
    IN  printDescription(enum.description, 0)
        \o << "enum " \o enum.name
              \o printAppliedDirectives(enum.applied, "") \o " {" >>
        \o Flatten([i \in 1..Len(sortedValues) |->
                       printEnumValue(sortedValues[i])])
        \o << "}", "" >>

printEnumDefinitions(enums) ==
    LET sorted == SortByName(enums)
    IN  Flatten([i \in 1..Len(sorted) |-> printEnumDefinition(sorted[i])])

printInputObjectField(field) ==
    printDescription(field.description, 2)
    \o << "  " \o field.name \o ": " \o TypeName(field.type)
          \o printAppliedDirectives(field.applied, "") >>

printInputObjectFieldDefinitions(inputFields, seed) ==
    LET keys == SortStrings(RangeKeys(inputFields, seed))
    IN  Flatten([i \in 1..Len(keys) |->
                    printInputObjectField(inputFields[keys[i]])])

printInputObjectDefinition(inputObject, seed) ==
    printDescription(inputObject.description, 0)
    \o << "input " \o inputObject.name
          \o printAppliedDirectives(inputObject.applied, "") \o " {" >>
    \o printInputObjectFieldDefinitions(inputObject.fields, seed)
    \o << "}", "" >>

printInputObjectDefinitions(inputObjects, seed) ==
    LET sorted == SortByName(inputObjects)
    IN  Flatten([i \in 1..Len(sorted) |->
                    printInputObjectDefinition(sorted[i], seed)])

printFieldArgument(arg) == arg.name \o ": " \o TypeName(arg.type)

printFieldDefinition(field) ==
    printDescription(field.description, 2)
    \o << "  " \o field.name
          \o (IF Len(field.args) > 0
              THEN "(" \o Join([i \in 1..Len(field.args) |->
                                   printFieldArgument(field.args[i])], ", ")
                       \o ")"
              ELSE "")
          \o ": " \o TypeName(field.type)
          \o printAppliedDirectives(field.applied, field.deprecationReason) >>

printFieldDefinitions(fieldDefinitionMap, seed) ==
    LET keys == SortStrings(RangeKeys(fieldDefinitionMap, seed))
    IN  Flatten([i \in 1..Len(keys) |->
                    printFieldDefinition(fieldDefinitionMap[keys[i]])])

printInterfaceDefinition(intf, seed) ==
    printDescription(intf.description, 0)
    \o << "interface " \o intf.name
          \o printAppliedDirectives(intf.applied, "") \o " {" >>
    \o printFieldDefinitions(intf.fields, seed)
    \o << "}", "" >>

printInterfaceDefinitions(interfaces, seed) ==
    LET sorted == SortByName(interfaces)
    IN  Flatten([i \in 1..Len(sorted) |->
                    printInterfaceDefinition(sorted[i], seed)])

printObjectDefinition(object, seed) ==
    printDescription(object.description, 0)
    \o << "type " \o object.name
          \o (IF Len(object.interfaces) > 0
              THEN " implements " \o Join(object.interfaces, ", ")
              ELSE "")
          \o printAppliedDirectives(object.applied, "") \o " {" >>
    \o printFieldDefinitions(object.fields, seed)
    \o << "}", "" >>

\* printObjectDefinitions without the sort of the objects
printObjectDefinitions_unsorted(objects, seed) ==
    Flatten([i \in 1..Len(objects) |-> printObjectDefinition(objects[i], seed)])

printObjectDefinitions(objects, seed) ==
    LET sorted == SortByName(objects)
    IN  Flatten([i \in 1..Len(sorted) |->
                    printObjectDefinition(sorted[i], seed)])

printUnionDefinition(union) ==
    printDescription(union.description, 0)
    \o << "union " \o union.name
          \o printAppliedDirectives(union.applied, "")
          \o " = " \o Join(SortStrings(union.types), " | "),
          "" >>

printUnionDefinitions(unions) ==
    LET sorted == SortByName(unions)
    IN  Flatten([i \in 1..Len(sorted) |-> printUnionDefinition(sorted[i])])

printCustomScalar(scalar) ==
    printDescription(scalar.description, 0)
    \o << "scalar " \o scalar.name
          \o printAppliedDirectives(scalar.applied, ""),
          "" >>

printCustomScalars(scalars) ==
    LET sorted == SortByName(scalars)
    IN  Flatten([i \in 1..Len(sorted) |-> printCustomScalar(sorted[i])])

\* only the name of the query root is looked at
isSchemaDefinitionNeeded_queryOnly(hp, schema) ==
    QueryType(hp, schema).name # "Query"

\* isSchemaDefinitionNeeded that also asks for the schema block when the
\* schema carries applied directives
isSchemaDefinitionNeeded_whenDirectives(hp, schema) ==
    \/ Len(schema.applied) > 0
    \/ QueryType(hp, schema).name # "Query"
    \/ schema.mutation # "" /\ schema.mutation # "Mutation"
    \/ schema.subscription # "" /\ schema.subscription # "Subscription"

isSchemaDefinitionNeeded(hp, schema) ==
    \/ QueryType(hp, schema).name # "Query"
    \/ schema.mutation # "" /\ schema.mutation # "Mutation"
    \/ schema.subscription # "" /\ schema.subscription # "Subscription"

\* PrinterOptions
Options(directiveDefinition, schemaDefinition) ==
    [IncludeDirectiveDefinition |-> directiveDefinition,
     IncludeSchemaDefinition |-> schemaDefinition]

DefaultPrinterOptions == Options(TRUE, TRUE)

buitlInScalars == {"Boolean", "Float", "ID", "Int", "String"}

\* every type of the type map is kept
PrintedTypes_unfiltered(hp, schema, seed) ==
    LET order == RangeOrder(DOMAIN schema.typeMap, seed)
    IN  [i \in 1..Len(order) |-> Deref(hp, schema.typeMap[order[i]])]

\* the types PrintSchema keeps, in the order the range over the type map
\* meets them
PrintedTypes(hp, schema, seed) ==
    LET order == RangeOrder(DOMAIN schema.typeMap, seed)
        kept == SelectSeq(order, LAMBDA name :
                    ~(HasIntrospectionPrefix(name) \/ name \in buitlInScalars))
    IN  [i \in 1..Len(kept) |-> Deref(hp, schema.typeMap[kept[i]])]

OfKind(types, kind) == SelectSeq(types, LAMBDA t : t.kind = kind)

\* PrintSchema with the unions in front of the objects
PrintSchema_unionsFirst(hp, schema, options, seed) ==
    LET types == PrintedTypes(hp, schema, seed)
    IN  TrimSpace(
            (IF options.IncludeSchemaDefinition
                \/ isSchemaDefinitionNeeded(hp, schema)
             THEN printSchemaDefinition(hp, schema) ELSE <<>>)
            \o (IF options.IncludeDirectiveDefinition
                THEN printDirectiveDefinitions(Directives(schema)) ELSE <<>>)
            \o printEnumDefinitions(OfKind(types, "Enum"))
            \o printInputObjectDefinitions(OfKind(types, "InputObject"), seed)
            \o printInterfaceDefinitions(OfKind(types, "Interface"), seed)
            \o printUnionDefinitions(OfKind(types, "Union"))
            \o printObjectDefinitions(OfKind(types, "Object"), seed)
            \o printCustomScalars(OfKind(types, "Scalar")))

PrintSchema(hp, schema, options, seed) ==
    LET types == PrintedTypes(hp, schema, seed)
    IN  TrimSpace(
            (IF options.IncludeSchemaDefinition
                \/ isSchemaDefinitionNeeded(hp, schema)
             THEN printSchemaDefinition(hp, schema) ELSE <<>>)
            \o (IF options.IncludeDirectiveDefinition
                THEN printDirectiveDefinitions(Directives(schema)) ELSE <<>>)
            \o printEnumDefinitions(OfKind(types, "Enum"))
            \o printInputObjectDefinitions(OfKind(types, "InputObject"), seed)
            \o printInterfaceDefinitions(OfKind(types, "Interface"), seed)
            \o printObjectDefinitions(OfKind(types, "Object"), seed)
            \o printUnionDefinitions(OfKind(types, "Union"))
            \o printCustomScalars(OfKind(types, "Scalar")))

\* what a slice of the caller holds after the printer has sorted it in
\* place
AfterSortOfCopy_inPlace(original, sorted) == sorted

\* what a slice of the caller holds after the printer has copied it and
\* sorted the copy: sorted := make(...); append(sorted, v); sort.Slice(sorted)
AfterSortOfCopy(original, sorted) == original

\* a printed type after PrintSchema: its applied directives, those of its
\* fields and enum values, its enum values and its member types
TypeAfterPrint(t) ==
    LET element(e) ==
            [e EXCEPT !.applied =
                AfterSortOfCopy(@, sortAppliedDirectives(@))]
        values == AfterSortOfCopy(t.values, SortByName(t.values))
    IN  [element(t) EXCEPT
            !.values = [i \in 1..Len(values) |-> element(values[i])],
            !.fields = [n \in DOMAIN @ |-> element(@[n])],
            !.types = AfterSortOfCopy(@, SortStrings(@))]

\* the heap and the schema after PrintSchema(schema, options): the type
\* map keeps its names; the types PrintSchema prints, the schema-level
\* applied directives and the directive list are what the sorts leave.
\* The static type objects carry no list of two elements.
AfterPrintSchema(hp, schema, options) ==
    LET printed(name) ==
            ~(HasIntrospectionPrefix(name) \/ name \in buitlInScalars)
        refs == {schema.typeMap[n].id : n \in
                    {m \in DOMAIN schema.typeMap :
                        printed(m) /\ schema.typeMap[m].kind = "Ref"}}
    IN  [heap |-> [id \in DOMAIN hp |->
                      IF id \in refs THEN TypeAfterPrint(hp[id]) ELSE hp[id]],
         schema |->
            [schema EXCEPT
                !.typeMap = [n \in DOMAIN @ |->
                    IF printed(n) /\ @[n].kind \notin {"Ref", "Static"}
                    THEN TypeAfterPrint(@[n]) ELSE @[n]],
                !.applied =
                    IF options.IncludeSchemaDefinition
                       \/ isSchemaDefinitionNeeded(hp, schema)
                    THEN AfterSortOfCopy(@, sortAppliedDirectives(@))
                    ELSE @,
                !.directives =
                    IF options.IncludeDirectiveDefinition
                    THEN AfterSortOfCopy(@,
                             DirectivePointers(
                                 sortDirectiveDefinitions(Directives(schema))))
                    ELSE @]]

FieldsPanic(fieldMap) ==
    \E n \in DOMAIN fieldMap : AppliedDirectivesPanic(fieldMap[n].applied)

TypePanics(t) ==
    \/ AppliedDirectivesPanic(t.applied)
    \/ t.kind \in {"Object", "Interface", "InputObject"} /\ FieldsPanic(t.fields)
    \/ t.kind = "Enum"
       /\ \E i \in 1..Len(t.values) : AppliedDirectivesPanic(t.values[i].applied)

\* PrintSchema panics when one of the applied directives it prints does
PrintSchemaPanics(hp, schema, options) ==
    \/ /\ options.IncludeSchemaDefinition \/ isSchemaDefinitionNeeded(hp, schema)
       /\ AppliedDirectivesPanic(schema.applied)
    \/ LET types == PrintedTypes(hp, schema, 0)
       IN  \E i \in 1..Len(types) : TypePanics(types[i])

\* ------------------------------------------------------------------------
\* graphql.NewSchema, as far as the composer depends on it
\* ------------------------------------------------------------------------

RECURSIVE BaseName(_)
BaseName(t) == IF t.k = "named" THEN t.n ELSE BaseName(t.of)

\* the names of the types one type refers to
Referenced(t) ==
    {BaseName(t.fields[n].type) : n \in DOMAIN t.fields}
    \cup UNION {{BaseName(t.fields[n].args[i].type) :
                    i \in 1..Len(t.fields[n].args)} : n \in DOMAIN t.fields}
    \cup {t.interfaces[i] : i \in 1..Len(t.interfaces)}
    \cup {t.types[i] : i \in 1..Len(t.types)}

\* graphql.SchemaConfig
SchemaConfig(query, types, directives, applied) ==
    [query |-> query, types |-> types, directives |-> directives,
     applied |-> applied]

\* the pointer the type map keeps for a type: the static type objects are
\* kept by name
TypePointer(t) ==
    IF /\ \E j \in 1..Len(KnownTypes) : KnownTypes[j].name = t.name
       /\ KnownType(t.name) = t
    THEN Static(t.name) ELSE t

\* the type the configuration binds a name to: the query root, a type of
\* the Types list, a type object a field of the query root points to, or
\* one of the static types
ConfigType(hp, config, name) ==
    LET root == hp[config.query]
    IN  IF root.name = name THEN Ref(config.query)
        ELSE IF \E i \in 1..Len(config.types) : config.types[i].name = name
        THEN TypePointer(config.types[CHOOSE i \in 1..Len(config.types) :
                                          config.types[i].name = name])
        ELSE IF \E n \in DOMAIN root.fields :
                   /\ root.fields[n].typeObj.kind # "none"
                   /\ root.fields[n].typeObj.name = name
        THEN root.fields[CHOOSE n \in DOMAIN root.fields :
                             /\ root.fields[n].typeObj.kind # "none"
                             /\ root.fields[n].typeObj.name = name].typeObj
        ELSE Static(name)

RECURSIVE CollectTypes(_, _, _)
\* the names reachable from the roots and the Types list
CollectTypes(hp, config, names) ==
    LET more == names \cup
                UNION {Referenced(Deref(hp, ConfigType(hp, config, n))) :
                          n \in names}
    IN  IF more = names THEN names ELSE CollectTypes(hp, config, more)

\* the build fails on a malformed configuration: two directive definitions
\* of one name, or two different types of one name
NewSchemaError(hp, config) ==
    \/ \E i, j \in 1..Len(config.directives) :
          i # j /\ config.directives[i].name = config.directives[j].name
    \/ \E i, j \in 1..Len(config.types) :
          /\ config.types[i].name = config.types[j].name
          /\ config.types[i] # config.types[j]
    \/ \E i \in 1..Len(config.types) :
          config.types[i].name = hp[config.query].name

NewSchema(hp, config) ==
    LET roots == {hp[config.query].name, "__Schema"}
                 \cup {config.types[i].name : i \in 1..Len(config.types)}
        names == CollectTypes(hp, config, roots)
    IN  [query |-> config.query,
         mutation |-> "",
         subscription |-> "",
         typeMap |-> [n \in names |-> ConfigType(hp, config, n)],
         directives |-> IF Len(config.directives) = 0
                        THEN DirectivePointers(SpecifiedDirectives)
                        ELSE DirectivePointers(config.directives),
         applied |-> config.applied]

\* ------------------------------------------------------------------------
\* Federated schema composer
\* ------------------------------------------------------------------------

\* FederatedSchemaConfig; query = 0 is a nil Query
FederatedSchemaConfig(query, types, directives, applied) ==
    [query |-> query, types |-> types, directives |-> directives,
     applied |-> applied,
     EntitiesFieldResolver |-> UserResolve("entities"),
     EntityTypeResolver |-> "resolveEntityType"]

\* isEntity without the test of Extend
isEntity_ignoresExtend(t) ==
    \E i \in 1..Len(t.applied) : t.applied[i].name = "key"

isEntity(t) ==
    IF t.extend THEN FALSE
    ELSE \E i \in 1..Len(t.applied) : t.applied[i].name = "key"

\* the entities in the order the range over the type map meets them
findEntityTypes(hp, schema, seed) ==
    LET order == RangeOrder(DOMAIN schema.typeMap, seed)
        types == [i \in 1..Len(order) |-> Deref(hp, schema.typeMap[order[i]])]
    IN  SelectSeq(types, LAMBDA t : t.kind = "Object" /\ isEntity(t))

\* the append without KeyDirectiveDefinition
ComposedDirectives_withoutKey(directives) ==
    directives \o
    << DeprecatedDirective, IncludeDirective, SkipDirective,
       ComposeDirectiveDefinition, ExternalDirectiveDefinition,
       InaccessibleDirectiveDefinition,
       LinkDirectiveDefinition, OverrideDirectiveDefinition,
       ProvidesDirectiveDefinition, RequiresDirectiveDefinition,
       ShareableDirectiveDefinition, TagDirectiveDefinition >>

\* config.Directives after the append
ComposedDirectives(directives) ==
    directives \o
    << DeprecatedDirective, IncludeDirective, SkipDirective,
       ComposeDirectiveDefinition, ExternalDirectiveDefinition,
       InaccessibleDirectiveDefinition, KeyDirectiveDefinition,
       LinkDirectiveDefinition, OverrideDirectiveDefinition,
       ProvidesDirectiveDefinition, RequiresDirectiveDefinition,
       ShareableDirectiveDefinition, TagDirectiveDefinition >>

\* config.AppliedDirectives after the append
ComposedAppliedDirectives(applied) ==
    applied \o << federationLinkAppliedDirective >>

\* config.Types after the append
ComposedTypes(types) == types \o << AnyType, FieldSetType, ServiceType >>

ServiceField == Field("_service", Named("_Service"))

\* the query root made for a nil Query
SyntheticQuery ==
    [Type("Object", "Query") EXCEPT !.fields = FieldMap(<< ServiceField >>)]

\* the heap once a valid query type is ensured
EnsureQuery(hp, query) ==
    IF query = 0
    THEN Append(hp, SyntheticQuery)
    ELSE [hp EXCEPT ![query] = AddFieldConfig(@, "_service", ServiceField)]

\* no helper type when no entity is found
EntityMembers_noHelper(found) == found

\* the members of the union: the entities found, or the helper type
EntityMembers(found) ==
    IF Len(found) = 0 THEN << ExtendHelperType >> ELSE found

\* graphql.NewUnion(UnionConfig{Name: "_Entity", Types: entities, ...})
EntityUnion(entities, resolveType) ==
    [kind |-> "Union", name |-> "_Entity", description |-> <<>>,
     extend |-> FALSE, applied |-> <<>>, interfaces |-> <<>>,
     fields |-> <<>>, values |-> <<>>,
     types |-> [i \in 1..Len(entities) |-> entities[i].name],
     resolveType |-> resolveType]

\* the union is made and never put into the type map
RegisterEntityType_skipped(schema, entityType) == schema

\* schema.TypeMap()["_Entity"] = entityType
RegisterEntityType(schema, entityType) ==
    [schema EXCEPT !.typeMap =
        [n \in DOMAIN schema.typeMap \cup {"_Entity"} |->
            IF n = "_Entity" THEN entityType ELSE schema.typeMap[n]]]

\* the _entities field with a nullable list as its type
EntitiesField_nullable(entityType, resolver) ==
    [Field("_entities", ListOf(Named("_Entity"))) EXCEPT
        !.typeObj = entityType,
        !.args = << Arg("representations",
                        NonNull(ListOf(NonNull(Named("_Any"))))) >>,
        !.resolve = resolver]

EntitiesField(entityType, resolver) ==
    [Field("_entities", NonNull(ListOf(Named("_Entity")))) EXCEPT
        !.typeObj = entityType,
        !.args = << Arg("representations",
                        NonNull(ListOf(NonNull(Named("_Any"))))) >>,
        !.resolve = resolver]

\* the resolver of _service that closes over the variable sdl
ServiceResolver(text) == [k |-> "sdl", sdl |-> text]

ResolvedServiceField(text) ==
    [ServiceField EXCEPT !.resolve = ServiceResolver(text)]

NilError == "nil"

\* the error of the build is not looked at
BuildFailed_ignored(err) == FALSE

\* if err != nil { panic(...) }
BuildFailed(err) == err # NilError

\* NewFederatedSchema(config).  findSeed and printSeed are the orders of
\* the two ranges over the type map.
NewFederatedSchema(config, findSeed, printSeed) ==
    /\ Len(schemas) < MaxSchemas
    /\ UNCHANGED toolchain
    /\ LET query == IF config.query = 0 THEN Len(heap) + 1 ELSE config.query
           heap1 == EnsureQuery(heap, config.query)
           built == SchemaConfig(query,
                                 ComposedTypes(config.types),
                                 ComposedDirectives(config.directives),
                                 ComposedAppliedDirectives(config.applied))
           err == IF NewSchemaError(heap1, built) THEN "error" ELSE NilError
           schema0 == NewSchema(heap1, built)
           entities == EntityMembers(findEntityTypes(heap1, schema0, findSeed))
           entityType == EntityUnion(entities, config.EntityTypeResolver)
           schema == RegisterEntityType(schema0, entityType)
           heap2 == [heap1 EXCEPT ![query] =
                        AddFieldConfig(@, "_entities",
                            EntitiesField(entityType,
                                          config.EntitiesFieldResolver))]
           text == PrintSchema(heap2, schema, DefaultPrinterOptions, printSeed)
           after == AfterPrintSchema(heap2, schema, DefaultPrinterOptions)
           heap3 == [after.heap EXCEPT ![query] =
                        AddFieldConfig(@, "_service",
                                       ResolvedServiceField(text))]
       IN  IF BuildFailed(err)
           THEN \* panic("failure to create schema" + err.Error())
                /\ heap' = IF config.query = 0 THEN heap ELSE heap1
                /\ result' = [op |-> "NewFederatedSchema", outcome |-> "panic",
                              err |-> err, config |-> config]
                /\ UNCHANGED << schemas, sdl >>
           ELSE IF PrintSchemaPanics(heap2, schema, DefaultPrinterOptions)
           THEN \* PrintSchema panics; the query root keeps what was added
                /\ heap' = IF config.query = 0 THEN heap ELSE heap2
                /\ result' = [op |-> "NewFederatedSchema", outcome |-> "panic",
                              err |-> err, config |-> config]
                /\ UNCHANGED << schemas, sdl >>
           ELSE /\ heap' = heap3
                /\ schemas' = Append(schemas, after.schema)
                /\ sdl' = Append(sdl, text)
                /\ result' = [op |-> "NewFederatedSchema", outcome |-> "ok",
                              err |-> err, config |-> config]

\* the value of `_service { sdl }` on schemas[i]: the resolver of the
\* _service field of the query root; without a resolver the field is null
NullResponse == << "null" >>

ServiceSDL(hp, schema) ==
    LET resolve == QueryType(hp, schema).fields["_service"].resolve
    IN  IF resolve.k = "sdl" THEN resolve.sdl ELSE NullResponse

\* a query `_service { sdl }` against schemas[i]
ResolveService(i) ==
    /\ result' = [op |-> "_service", schema |-> i,
                  sdl |-> ServiceSDL(heap, schemas[i])]
    /\ UNCHANGED << heap, schemas, sdl, toolchain >>

\* ------------------------------------------------------------------------
\* The composer's callers
\* ------------------------------------------------------------------------

AllTypes == << UserType, ProductType, ReviewType, NodeType, PlainType >>

\* a link whose import list is empty
EmptyLinkAppliedDirective ==
    LinkAppliedDirective("https://example.com/spec", <<>>)

\* the configurations the callers pass: with and without a Query, with no,
\* one and two entities, with types that carry @key and are no entities,
\* with a directive and an applied directive of the caller, with a directive
\* definition the composer appends again, with an empty import list
Configs ==
    { FederatedSchemaConfig(0, <<>>, <<>>, <<>>),
      FederatedSchemaConfig(0, << ProductType >>, <<>>, <<>>),
      FederatedSchemaConfig(1, << ProductType >>, <<>>, <<>>),
      [FederatedSchemaConfig(1, AllTypes, <<>>, <<>>) EXCEPT
          !.EntitiesFieldResolver = UserResolve("entitiesOfAllTypes")],
      FederatedSchemaConfig(2, <<>>, <<>>, <<>>),
      FederatedSchemaConfig(2, << ReviewType, NodeType, PlainType >>, <<>>, <<>>),
      FederatedSchemaConfig(2, << ProductType >>,
                            << ContactDirectiveDefinition >>,
                            << ContactAppliedDirective("team", "url", "notes") >>),
      FederatedSchemaConfig(0, << ProductType >>, << KeyDirectiveDefinition >>, <<>>),
      FederatedSchemaConfig(1, << ProductType >>, << KeyDirectiveDefinition >>, <<>>),
      FederatedSchemaConfig(1, << ProductType >>, <<>>,
                            << EmptyLinkAppliedDirective >>) }

BuildSeeds == 0..(MaxBuildSeed - 1)

\* No slice the composer's callers have sorted holds two different elements
\* of one name, so that both toolchains sort them alike: the composer is
\* followed with the later one.
Init ==
    /\ toolchain = "pdqsort"
    /\ heap = CallerQueries
    /\ schemas = <<>>
    /\ sdl = <<>>
    /\ result = [op |-> "none"]

Next ==
    \/ \E config \in Configs, findSeed \in BuildSeeds, printSeed \in BuildSeeds :
          NewFederatedSchema(config, findSeed, printSeed)
    \/ \E i \in 1..Len(schemas) : ResolveService(i)

Spec == Init /\ [][Next]_vars

\* ------------------------------------------------------------------------
\* The printer's callers: PrintSchema on schemas of every kind of type
\* ------------------------------------------------------------------------

\* a directive application of the caller with a numeric argument
CostAppliedDirective(weight) ==
    Applied("cost", << AppliedArg("weight", NumV(weight)) >>)

ColorEnum ==
    [Type("Enum", "Color") EXCEPT
        !.description = << "Colors" >>,
        !.applied = << TagAppliedDirective("red") >>,
        !.values = << [EnumValue("red") EXCEPT !.deprecationReason = "use blue"],
                      [EnumValue("green") EXCEPT
                          !.deprecationReason = "use blue",
                          !.applied = << TagAppliedDirective("red"),
                                         CostAppliedDirective(1) >>],
                      [EnumValue("blue") EXCEPT
                          !.description = << "Replaces red" >>,
                          !.applied = << InaccessibleAppliedDirective >>] >>]

AnimalEnum ==
    [Type("Enum", "Animal") EXCEPT
        !.values = << EnumValue("dog"), EnumValue("cat") >>]

FilterInput ==
    [Type("InputObject", "Filter") EXCEPT
        !.description = << "Input object", "of two lines" >>,
        !.fields = FieldMap(<< [Field("name", Named("String")) EXCEPT
                                   !.description = << "name field" >>,
                                   !.applied = << TagAppliedDirective("blue") >>],
                               Field("id", NonNull(Named("ID"))) >>)]

PagingInput ==
    [Type("InputObject", "Paging") EXCEPT
        !.fields = FieldMap(<< Field("offset", Named("Int")),
                               Field("limit", Named("Int")) >>)]

EntityInterface ==
    [Type("Interface", "Entity") EXCEPT
        !.fields = FieldMap(<< Field("name", Named("String")),
                               Field("id", NonNull(Named("ID"))) >>)]

\* an object that declares its interfaces as Node, Entity
BookType ==
    [Type("Object", "Book") EXCEPT
        !.interfaces = << "Node", "Entity" >>,
        !.fields = FieldMap(<< Field("name", Named("String")),
                               Field("id", NonNull(Named("ID"))) >>)]

\* an object without applied directives whose fields carry deprecation
\* reasons and applied directives
LegacyType ==
    [Type("Object", "Legacy") EXCEPT
        !.fields = FieldMap(<<
            [Field("older", Named("Int")) EXCEPT
                !.deprecationReason = "use Y",
                !.applied = << TagAppliedDirective("red"),
                               CostAppliedDirective(5) >>],
            [Field("old", Named("String")) EXCEPT
                !.deprecationReason = "use X"],
            [Field("fresh", Named("String")) EXCEPT
                !.applied = << ShareableAppliedDirective,
                               ExternalAppliedDirective >>] >>)]

SearchResultUnion ==
    [Type("Union", "SearchResult") EXCEPT !.types = << "User", "Product" >>]

MediaUnion ==
    [Type("Union", "Media") EXCEPT !.types = << "Product", "Book" >>]

\* a mutation or subscription root
RootObject(name) ==
    [Type("Object", name) EXCEPT
        !.fields = FieldMap(<< Field("ping", Named("String")) >>)]

\* a directive application of the caller with one argument of any value
ScopesAppliedDirective(value) ==
    Applied("scopes", << AppliedArg("names", value) >>)

\* the argument values of the callers: a string, lists of one, two and three
\* elements, lists of lists, a list in a list in a list, an empty list, a
\* list of an empty list and no value
ArgumentValues ==
    [ Bare |-> StrV("a"),
      One |-> ListV(<< StrV("a") >>),
      Two |-> ListV(<< StrV("a"), StrV("b") >>),
      Nested |-> ListV(<< ListV(<< StrV("a"), StrV("b") >>),
                          ListV(<< StrV("c") >>) >>),
      Deep |-> ListV(<< ListV(<< ListV(<< StrV("a") >>),
                                 ListV(<< StrV("b") >>) >>),
                        ListV(<< StrV("c") >>) >>),
      Mixed |-> ListV(<< StrV("a"), NumV(1), BoolV(TRUE) >>),
      Wrapped |-> ListV(<< ListV(<< StrV("a") >>) >>),
      Empty |-> ListV(<<>>),
      Hollow |-> ListV(<< ListV(<<>>) >>),
      Absent |-> NilV ]

\* a scalar that carries the application with the value of this name
Carrier(name) ==
    [Type("Scalar", name) EXCEPT
        !.applied = << ScopesAppliedDirective(ArgumentValues[name]) >>]

\* an object whose fields carry several applied directives of one name: two
\* of three on spot, four of seven on label
ShelfType ==
    [Type("Object", "Shelf") EXCEPT
        !.fields = FieldMap(<<
            [Field("spot", Named("String")) EXCEPT
                !.applied = << TagAppliedDirective("b"),
                               TagAppliedDirective("a"),
                               ExternalAppliedDirective >>],
            [Field("label", Named("String")) EXCEPT
                !.applied = << TagAppliedDirective("a"),
                               CostAppliedDirective(1),
                               ExternalAppliedDirective,
                               InaccessibleAppliedDirective,
                               ShareableAppliedDirective,
                               TagAppliedDirective("b"),
                               CostAppliedDirective(2) >>] >>)]

\* types with descriptions of one line and of two lines, on the type and on
\* its fields, input fields and enum values, next to elements without one
DescribedTypes ==
    << [Type("Enum", "Shape") EXCEPT
           !.description = << "Shapes", "of the plane" >>,
           !.values = << [EnumValue("square") EXCEPT
                             !.description = << "Four sides" >>],
                         EnumValue("dot"),
                         [EnumValue("circle") EXCEPT
                             !.description = << "A circle", "is round" >>] >>],
       [Type("InputObject", "Note") EXCEPT
           !.fields = FieldMap(<<
               [Field("title", Named("String")) EXCEPT
                   !.description = << "The title" >>],
               [Field("body", Named("String")) EXCEPT
                   !.description = << "The body", "of the note" >>] >>)],
       [Type("Object", "Manual") EXCEPT
           !.description = << "A manual" >>,
           !.fields = FieldMap(<<
               [Field("page", Named("Int")) EXCEPT
                   !.description = << "The page", "", "counted from 1" >>],
               Field("index", Named("String")),
               [Field("cover", Named("String")) EXCEPT
                   !.description = << "The cover" >>] >>)],
       [Type("Interface", "Readable") EXCEPT
           !.description = << "Readable", "things" >>,
           !.fields = FieldMap(<<
               [Field("title", Named("String")) EXCEPT
                   !.description = << "The title", "of the thing" >>] >>)],
       [Type("Union", "Paper") EXCEPT
           !.description = << "Book or manual" >>,
           !.types = << "Manual", "Book" >>] >>

\* the types a printed schema registers next to its root types
PrinterTypes ==
    << ColorEnum, AnimalEnum, FilterInput, PagingInput, NodeType,
       EntityInterface, UserType, ProductType, BookType, LegacyType,
       SearchResultUnion, MediaUnion, FieldSetType, AnyType,
       BuiltInScalar("String"), BuiltInScalar("Int"),
       IntrospectionSchemaType, ServiceType,
       EntityUnion(<< ProductType >>, "resolveEntityType"),
       Carrier("Bare"), Carrier("One"), Carrier("Two"), Carrier("Nested"),
       Carrier("Deep"), Carrier("Mixed"), Carrier("Wrapped"),
       Carrier("Empty"), Carrier("Hollow"), Carrier("Absent") >>
    \o DescribedTypes \o << ShelfType >>

\* one type of every kind
OneOfEachKind == {1, 3, 5, 8, 11, 13}

\* no type, every single type, two types of every kind, types of two kinds,
\* one type of every kind, and the rest
PrinterTypeSets ==
    { {} } \cup { {i} : i \in 1..Len(PrinterTypes) }
    \cup { {1, 2}, {3, 4}, {5, 6}, {7, 8}, {11, 12}, {13, 14},
           {7, 11}, {1, 13}, {5, 6, 9}, {14, 15, 16, 17, 18, 19},
           OneOfEachKind, {2, 4, 5, 6, 8, 9, 10, 12, 14, 16},
           {20, 21, 22, 23, 24, 25, 26}, {1, 14, 30, 31, 32, 33, 34} }

Roots(query, mutation, subscription) ==
    [query |-> query, mutation |-> mutation, subscription |-> subscription]

DefaultRoots == Roots(1, "", "")

\* root types of other names, with and without mutation and subscription
OtherRoots ==
    { Roots(2, "", ""), Roots(1, "Mutation", ""), Roots(1, "MyMutation", ""),
      Roots(1, "Mutation", "Subscription"), Roots(1, "", "MySubscription"),
      Roots(2, "Mutation", "Subscription") }

\* the schema-level applied directives and the registered directives
Level(appliedDirectives, directives) ==
    [applied |-> appliedDirectives, directives |-> directives]

PrinterLevels ==
    { Level(<<>>, << TagDirectiveDefinition, KeyDirectiveDefinition >>),
      Level(<< TagAppliedDirective("red"),
               ContactAppliedDirective("team", "url", "notes") >>,
            << TagDirectiveDefinition, ShareableDirectiveDefinition,
               InaccessibleDirectiveDefinition, ContactDirectiveDefinition,
               KeyDirectiveDefinition, LinkDirectiveDefinition >>) }

PrinterSchema(roots, S, level) ==
    LET rootNames == {roots.mutation, roots.subscription} \ {""}
        queryName == CallerQueries[roots.query].name
    IN  [query |-> roots.query,
         mutation |-> roots.mutation,
         subscription |-> roots.subscription,
         typeMap |-> [n \in {queryName} \cup rootNames
                            \cup {PrinterTypes[i].name : i \in S} |->
                         IF n = queryName THEN Ref(roots.query)
                         ELSE IF n \in rootNames THEN RootObject(n)
                         ELSE TypePointer(PrinterTypes[CHOOSE i \in S :
                                              PrinterTypes[i].name = n])],
         directives |-> DirectivePointers(level.directives),
         applied |-> level.applied]

PrinterSchemas ==
    {PrinterSchema(DefaultRoots, S, level) :
        S \in PrinterTypeSets, level \in PrinterLevels}
    \cup {PrinterSchema(roots, S, level) :
             roots \in OtherRoots, S \in {{}, OneOfEachKind},
             level \in PrinterLevels}

PrintSeeds == 0..(MaxSeed - 1)

AllOptions == {Options(d, sd) : d \in BOOLEAN, sd \in BOOLEAN}

PrinterInit ==
    /\ toolchain \in Toolchains
    /\ heap = CallerQueries
    /\ \E schema \in PrinterSchemas : schemas = << schema >>
    /\ sdl = <<>>
    /\ result = [op |-> "none"]

\* a call PrintSchema(schema, options); seed is the order of the ranges
\* over the type map and the field maps
PrintSchemaCall(options, seed) ==
    /\ result' = [op |-> "PrintSchema", options |-> options,
                  text |-> IF PrintSchemaPanics(heap, schemas[1], options)
                           THEN << "panic" >>
                           ELSE PrintSchema(heap, schemas[1], options, seed)]
    /\ LET after == AfterPrintSchema(heap, schemas[1], options)
       IN  heap' = after.heap /\ schemas' = << after.schema >>
    /\ UNCHANGED << sdl, toolchain >>

PrinterNext ==
    \E options \in AllOptions, seed \in PrintSeeds :
        PrintSchemaCall(options, seed)

SpecPrinter == PrinterInit /\ [][PrinterNext]_vars

\* ------------------------------------------------------------------------
\* Properties
\* ------------------------------------------------------------------------

\* the text has the line
HasLine(text, line) == \E i \in 1..Len(text) : text[i] = line

\* the lines of the block that starts with the line `first`, up to its "}"
RECURSIVE UpToBrace(_)
UpToBrace(lines) ==
    IF Len(lines) = 0 \/ lines[1] = "}" THEN <<>>
    ELSE << lines[1] >> \o UpToBrace(Tail(lines))

Block(text, first) ==
    IF HasLine(text, first)
    THEN LET i == CHOOSE j \in 1..Len(text) : text[j] = first
         IN  UpToBrace(SubSeq(text, i + 1, Len(text)))
    ELSE <<>>

Range(seq) == {seq[i] : i \in 1..Len(seq)}

\* the call that made the last schema has just returned
JustReturned == result.op = "NewFederatedSchema" /\ result.outcome = "ok"

\* C1: for a fixed schema and fixed options PrintSchema returns the same
\* text whatever the order of the ranges over the type map and the field
\* maps: every order yields the text the last call returned.
C1_PrintSchemaDeterministic ==
    (result.op = "PrintSchema" /\ result.text # << "panic" >>) =>
        \A seed \in PrintSeeds :
            PrintSchema(heap, schemas[1], result.options, seed) = result.text

\* a call has printed a schema with several types of one kind, several
\* fields in a type and several members in a union
C1_Witness ==
    /\ result.op = "PrintSchema"
    /\ result.text # << "panic" >>
    /\ {"User", "SearchResult"} \subseteq DOMAIN schemas[1].typeMap
    /\ HasLine(result.text, "union SearchResult = Product | User")
    /\ \E seed \in PrintSeeds :
          RangeOrder(DOMAIN schemas[1].typeMap, seed)
              # RangeOrder(DOMAIN schemas[1].typeMap, 0)

\* C2 (as claimed): every resolution of `_service { sdl }` on a returned
\* schema yields the string computed when that schema was built, whatever
\* calls follow.
C2_ServedSDLNeverChanges ==
    \A i \in 1..Len(schemas) : ServiceSDL(heap, schemas[i]) = sdl[i]

\* C3: when NewFederatedSchema returns, the string `_service { sdl }`
\* serves is PrintSchema(returned schema, DefaultPrinterOptions), computed
\* after the _Entity union is registered and _entities is attached: it has
\* the _Entity union line and a query type block with _entities and
\* _service.
C3_ServedSDLIsPrintedSchema ==
    JustReturned =>
        LET n == Len(schemas)
            schema == schemas[n]
            served == ServiceSDL(heap, schema)
            root == QueryType(heap, schema)
            block == Block(served, "type " \o root.name \o " {")
        IN  /\ served = sdl[n]
            /\ \A seed \in BuildSeeds :
                  served = PrintSchema(heap, schema, DefaultPrinterOptions, seed)
            /\ "_Entity" \in DOMAIN schema.typeMap
            /\ \E i \in 1..Len(served) :
                  /\ Len(schema.typeMap["_Entity"].types) > 0
                  /\ served[i] = "union _Entity = "
                        \o Join(SortStrings(schema.typeMap["_Entity"].types), " | ")
            /\ HasLine(block, "  _entities(representations: [_Any!]!): [_Entity]!")
            /\ HasLine(block, "  _service: _Service")

\* a call with a Query of the caller has returned and its SDL is served
C3_Witness ==
    /\ JustReturned
    /\ result.config.query # 0
    /\ HasLine(ServiceSDL(heap, schemas[Len(schemas)]),
               "union _Entity = Product | User")

\* the names of the types of the registry that qualify as entities: object
\* types that are no Extend stub and carry an applied @key
Qualifying(schema) ==
    {n \in DOMAIN schema.typeMap :
        LET t == Deref(heap, schema.typeMap[n])
        IN  /\ t.kind = "Object"
            /\ ~t.extend
            /\ \E j \in 1..Len(t.applied) : t.applied[j].name = "key"}

\* C4: the _Entity union of every returned schema has a member; with no
\* qualifying object type it has exactly the helper type as its member and
\* prints as a one-member union line.
C4_EntityUnionNeverEmpty ==
    \A i \in 1..Len(schemas) :
        /\ "_Entity" \in DOMAIN schemas[i].typeMap
        /\ LET union == schemas[i].typeMap["_Entity"]
           IN  /\ union.kind = "Union"
               /\ Len(union.types) >= 1
               /\ Qualifying(schemas[i]) = {} =>
                     /\ union.types = << "_ExtendHelper" >>
                     /\ HasLine(sdl[i], "union _Entity = _ExtendHelper")

\* a schema was composed from types that carry @key and of which none
\* qualifies
C4_Witness ==
    \E i \in 1..Len(schemas) :
        /\ {"Review", "Node"} \subseteq DOMAIN schemas[i].typeMap
        /\ Qualifying(schemas[i]) = {}
        /\ HasLine(sdl[i], "union _Entity = _ExtendHelper")

\* C5 (as claimed): with no qualifying type the printed SDL has a type
\* block for the helper type, the one member of the _Entity union.
C5_HelperTypeIsDefined ==
    \A i \in 1..Len(schemas) :
        schemas[i].typeMap["_Entity"].types = << "_ExtendHelper" >> =>
            HasLine(sdl[i], "type _ExtendHelper {")

\* C6: when an entity exists, the members of the _Entity union are exactly
\* the object types of the registry that are no Extend stub and carry an
\* applied @key, each once.
C6_EntityUnionMembers ==
    \A i \in 1..Len(schemas) :
        Qualifying(schemas[i]) # {} =>
            /\ "_Entity" \in DOMAIN schemas[i].typeMap
            /\ Range(schemas[i].typeMap["_Entity"].types) = Qualifying(schemas[i])
            /\ Len(schemas[i].typeMap["_Entity"].types)
                  = Cardinality(Qualifying(schemas[i]))

\* a schema with two entities, an Extend stub with @key, an interface with
\* @key and an object without @key
C6_Witness ==
    \E i \in 1..Len(schemas) :
        /\ {"Review", "Node", "Plain"} \subseteq DOMAIN schemas[i].typeMap
        /\ Range(schemas[i].typeMap["_Entity"].types) = {"Product", "User"}

\* C7: a call that returns returns a nil error, and a call whose build
\* reports an error panics with nothing done after the build: no schema is
\* returned, no SDL is computed, and a query root of the caller has at most
\* the resolver-less _service field of before the build added.
C7_NoPartialSchema ==
    [][/\ (result'.op = "NewFederatedSchema" /\ result'.outcome = "ok") =>
             result'.err = NilError
       /\ (/\ result'.op = "NewFederatedSchema"
           /\ result'.outcome = "panic"
           /\ result'.err # NilError) =>
             /\ schemas' = schemas
             /\ sdl' = sdl
             /\ Len(heap') = Len(heap)
             /\ \A q \in 1..Len(heap) :
                   \/ heap'[q] = heap[q]
                   \/ /\ q = result'.config.query
                      /\ heap'[q] = AddFieldConfig(heap[q], "_service",
                                                   ServiceField)]_vars

\* the build of a call has reported an error
C7_Witness ==
    /\ result.op = "NewFederatedSchema"
    /\ result.outcome = "panic"
    /\ result.err # NilError
    /\ result.config.query # 0

\* C8 (as claimed): without a Query the root of the returned schema is a
\* synthesized type Query with exactly the fields _service and _entities; a
\* Query of the caller is the root itself, and after the call its fields
\* are its original fields, unchanged, plus _service and _entities.
C8_OriginalFieldsUnchanged ==
    [][Len(schemas') = Len(schemas) + 1 =>
          LET schema == schemas'[Len(schemas')]
              query == result'.config.query
          IN  IF query = 0
              THEN /\ schema.query \notin DOMAIN heap
                   /\ heap'[schema.query].name = "Query"
                   /\ DOMAIN heap'[schema.query].fields
                         = {"_service", "_entities"}
              ELSE /\ schema.query = query
                   /\ DOMAIN heap'[query].fields
                         = DOMAIN heap[query].fields
                              \cup {"_service", "_entities"}
                   /\ \A f \in DOMAIN heap[query].fields :
                         heap'[query].fields[f] = heap[query].fields[f]]_vars

ExpectedLinkLine ==
    "schema @link(url: \"https://specs.apollo.dev/federation/v2.1\", import: [\"composeDirective\", \"external\", \"inaccessible\", \"key\", \"override\", \"provides\", \"requires\", \"shareable\", \"tag\", \"FieldSet\"]) {"

\* C9 (as claimed): the composer appends one @link after the caller's
\* applied directives, and the served SDL renders it with the bare names of
\* the imports in double quotes.
C9_LinkRendersBareNames ==
    \A i \in 1..Len(schemas) :
        /\ Len(schemas[i].applied) >= 1
        /\ schemas[i].applied[Len(schemas[i].applied)].name = "link"
        /\ Len(schemas[i].applied) = 1 => sdl[i][1] = ExpectedLinkLine

CatalogDirectiveNames ==
    { "composeDirective", "contact", "external", "inaccessible", "key",
      "link", "override", "provides", "requires", "shareable", "tag" }

\* the directive has a registered definition that the SDL prints
Registered(i, name) ==
    \E j \in 1..Len(schemas[i].directives) :
        LET d == Directives(schemas[i])[j]
        IN  /\ d.name = name
            /\ \A k \in 1..Len(printDirectiveDefinition(d)) :
                  HasLine(sdl[i], printDirectiveDefinition(d)[k])

\* C10 (as claimed): every directive of the catalog, contact included, has
\* a registered definition in the composed schema and in its SDL.
C10_AllCatalogDirectivesRegistered ==
    \A i \in 1..Len(schemas) :
        \A name \in CatalogDirectiveNames : Registered(i, name)

AppendedDirectiveNames ==
    << "deprecated", "include", "skip", "composeDirective", "external",
       "inaccessible", "key", "link", "override", "provides", "requires",
       "shareable", "tag" >>

\* C10 (amended): the directive definitions of the schema a call returns
\* are the caller's followed by deprecated, include, skip and the ten
\* federation definitions composeDirective, external, inaccessible, key,
\* link, override, provides, requires, shareable, tag; each of these has a
\* registered definition that the SDL prints; contact is registered only
\* when the caller supplies its definition.
C10_AppendedDirectives ==
    JustReturned =>
        LET i == Len(schemas)
            own == result.config.directives
            all == Directives(schemas[i])
        IN  /\ Len(all) = Len(own) + Len(AppendedDirectiveNames)
            /\ SubSeq(all, 1, Len(own)) = own
            /\ \A k \in 1..Len(AppendedDirectiveNames) :
                  /\ all[Len(own) + k].name = AppendedDirectiveNames[k]
                  /\ Registered(i, AppendedDirectiveNames[k])
            /\ Registered(i, "contact") <=>
                  \E k \in 1..Len(own) : own[k].name = "contact"

\* a call with a directive definition of the caller has returned
C10_Witness ==
    /\ JustReturned
    /\ Len(result.config.directives) = 1
    /\ Len(schemas[Len(schemas)].directives) = 14

Printed == result.op = "PrintSchema" /\ result.text # << "panic" >>

\* the schema PrintSchema was called on registers a type of this name
Registers(name) == name \in DOMAIN schemas[1].typeMap

\* the printed text begins with the schema block
SchemaBlockPrinted ==
    \/ result.options.IncludeSchemaDefinition
    \/ isSchemaDefinitionNeeded(heap, schemas[1])

\* C12: the applied directive KeyAppliedDirective("id", true) renders as
\* exactly `@key(fields: "id", resolvable: true)`: string values in double
\* quotes, boolean and numeric values bare, the arguments separated by ", "
\* inside one pair of parentheses.
C12_AppliedDirectiveValues ==
    /\ printAppliedDirective(KeyAppliedDirective("id", TRUE))
          = "@key(fields: \"id\", resolvable: true)"
    /\ Printed =>
          /\ Registers("Product") =>
                HasLine(result.text,
                    "type Product @key(fields: \"id\", resolvable: true) {")
          /\ Registers("Node") =>
                HasLine(result.text,
                    "interface Node @key(fields: \"id\", resolvable: true) {")
          /\ Registers("Legacy") =>
                HasLine(result.text,
                    "  older: Int @deprecated(reason: \"use Y\") @cost(weight: 5) @tag(name: \"red\")")
          /\ (SchemaBlockPrinted /\ Len(schemas[1].applied) = 2) =>
                result.text[1] =
                    "schema @contact(name: \"team\", url: \"url\", description: \"notes\") @tag(name: \"red\") {"

\* a schema with @key on an object and an interface and with a numeric
\* argument value has been printed
C12_Witness ==
    /\ Printed
    /\ Registers("Product") /\ Registers("Node") /\ Registers("Legacy")
    /\ HasLine(result.text,
               "type Product @key(fields: \"id\", resolvable: true) {")

\* C13: a field or an enum value with a deprecation reason r renders
\* `@deprecated(reason: "r")` once, before every other applied directive of
\* the element whatever their names (cost and tag here); without other
\* applied directives it is the only directive, and an element without a
\* deprecation reason renders no @deprecated.
C13_DeprecationFirst ==
    Printed =>
        /\ Registers("Legacy") =>
              Block(result.text, "type Legacy {") =
                  << "  fresh: String @external @shareable",
                     "  old: String @deprecated(reason: \"use X\")",
                     "  older: Int @deprecated(reason: \"use Y\") @cost(weight: 5) @tag(name: \"red\")" >>
        /\ Registers("Color") =>
              Block(result.text, "enum Color @tag(name: \"red\") {") =
                  << "  \"Replaces red\"",
                     "  blue @inaccessible",
                     "  green @deprecated(reason: \"use blue\") @cost(weight: 1) @tag(name: \"red\")",
                     "  red @deprecated(reason: \"use blue\")" >>

\* an object with a field that is deprecated and carries applied directives
\* named before and behind "deprecated" has been printed
C13_Witness ==
    /\ Printed
    /\ Registers("Legacy")
    /\ HasLine(result.text, "  old: String @deprecated(reason: \"use X\")")
    /\ Rank("cost") < Rank("deprecated") /\ Rank("deprecated") < Rank("tag")

\* the first line (behind the description) of the definition block a type
\* of the printer's callers has or would have
HeaderLine ==
    [ Color |-> "enum Color @tag(name: \"red\") {",
      Animal |-> "enum Animal {",
      Filter |-> "input Filter {",
      Paging |-> "input Paging {",
      Node |-> "interface Node @key(fields: \"id\", resolvable: true) {",
      Entity |-> "interface Entity {",
      User |-> "type User @key(fields: \"id\", resolvable: true) @tag(name: \"red\") {",
      Product |-> "type Product @key(fields: \"id\", resolvable: true) {",
      Book |-> "type Book implements Node, Entity {",
      Legacy |-> "type Legacy {",
      SearchResult |-> "union SearchResult = Product | User",
      Media |-> "union Media = Book | Product",
      FieldSet |-> "scalar FieldSet",
      _Any |-> "scalar _Any",
      _Service |-> "type _Service {",
      _Entity |-> "union _Entity = Product",
      String |-> "scalar String",
      Int |-> "scalar Int",
      __Schema |-> "type __Schema {",
      Query |-> "type Query {",
      RootQuery |-> "type RootQuery {",
      Mutation |-> "type Mutation {",
      MyMutation |-> "type MyMutation {",
      Subscription |-> "type Subscription {",
      MySubscription |-> "type MySubscription {",
      Bare |-> "scalar Bare @scopes(names: \"a\")",
      One |-> "scalar One @scopes(names: \"a\")",
      Two |-> "scalar Two @scopes(names: [\"a\", \"b\"])",
      Nested |-> "scalar Nested @scopes(names: [\"a\", \"b\", \"c\"])",
      Deep |-> "scalar Deep @scopes(names: [\"a\", \"b\", \"c\"])",
      Mixed |-> "scalar Mixed @scopes(names: [\"a\", 1, true])",
      Wrapped |-> "scalar Wrapped @scopes(names: \"a\")",
      Empty |-> "scalar Empty @scopes(names: [])",
      Hollow |-> "scalar Hollow @scopes(names: [])",
      Absent |-> "scalar Absent @scopes(names: null)",
      Shape |-> "enum Shape {",
      Note |-> "input Note {",
      Manual |-> "type Manual {",
      Readable |-> "interface Readable {",
      Paper |-> "union Paper = Book | Manual",
      Shelf |-> "type Shelf {" ]

\* how often the text has the line
Occurrences(text, line) == Cardinality({i \in 1..Len(text) : text[i] = line})

\* the names no definition block is printed for
ExcludedNames == {"Boolean", "Float", "ID", "Int", "String", "__Schema"}

\* C14: a type registered under Boolean, Float, ID, Int or String or under
\* a name with the prefix "__" has no definition block in the text of
\* PrintSchema, whatever the options; every other registered type, _Any,
\* _Service and _Entity included, has exactly one.
C14_BuiltInExclusion ==
    Printed =>
        \A name \in DOMAIN schemas[1].typeMap :
            Occurrences(result.text, HeaderLine[name])
                = IF name \in ExcludedNames THEN 0 ELSE 1

\* a schema that registers String, Int, __Schema, _Any, _Service and
\* _Entity has been printed
C14_Witness ==
    /\ Printed
    /\ {"String", "Int", "__Schema", "_Any", "_Service", "_Entity"}
          \subseteq DOMAIN schemas[1].typeMap
    /\ HasLine(result.text, "scalar _Any")

\* the line of the definition of a directive of the printer's callers
DirectiveLine ==
    [ contact |-> "directive @contact(name: String!, url: String, description: String) on SCHEMA",
      inaccessible |-> "directive @inaccessible on FIELD_DEFINITION | OBJECT | INTERFACE | UNION | ENUM | ENUM_VALUE | SCALAR | INPUT_OBJECT | INPUT_FIELD_DEFINITION | ARGUMENT_DEFINITION",
      key |-> "directive @key(fields: FieldSet!, resolvable: Boolean) repeatable on OBJECT | INTERFACE",
      link |-> "directive @link(url: String!, import: [[String]]) repeatable on SCHEMA",
      shareable |-> "directive @shareable on FIELD_DEFINITION | OBJECT",
      tag |-> "directive @tag(name: String!) repeatable on FIELD_DEFINITION | OBJECT | INTERFACE | UNION | ARGUMENT_DEFINITION | SCALAR | ENUM | ENUM_VALUE | INPUT_OBJECT | INPUT_FIELD_DEFINITION" ]

\* the first line of the schema block
SchemaLines ==
    { "schema {",
      "schema @contact(name: \"team\", url: \"url\", description: \"notes\") @tag(name: \"red\") {" }

\* the names of the registered types that have a definition block
PrintedNames ==
    {name \in DOMAIN schemas[1].typeMap : name \notin ExcludedNames}

KindOrder ==
    << "Enum", "InputObject", "Interface", "Object", "Union", "Scalar" >>

\* the header lines of the sections in the order of the sections: the
\* schema block, the directive definitions, the types of each kind
SectionLines ==
    << SchemaLines, {DirectiveLine[n] : n \in DOMAIN DirectiveLine} >>
    \o [k \in 1..Len(KindOrder) |->
           {HeaderLine[name] : name \in
               {n \in PrintedNames :
                   Deref(heap, schemas[1].typeMap[n]).kind = KindOrder[k]}}]

\* the sections of the header lines of the text, in the order of the text
SectionOfLines(text, sectionLines) ==
    LET section(line) ==
            IF \E k \in 1..Len(sectionLines) : line \in sectionLines[k]
            THEN CHOOSE k \in 1..Len(sectionLines) : line \in sectionLines[k]
            ELSE 0
        all == [i \in 1..Len(text) |-> section(text[i])]
    IN  SelectSeq(all, LAMBDA k : k # 0)

\* the number of blocks the text has to have
ExpectedBlocks ==
    (IF SchemaBlockPrinted THEN 1 ELSE 0)
    + (IF result.options.IncludeDirectiveDefinition
       THEN Len(schemas[1].directives) ELSE 0)
    + Cardinality(PrintedNames)

\* C15: the text of PrintSchema is the schema block, the directive
\* definitions, the enums, input objects, interfaces, objects, unions and
\* scalars in this order; consecutive blocks are separated by one blank
\* line, the text neither begins nor ends with a blank line, and a section
\* that is absent or empty leaves no blank line.
C15_SectionOrder ==
    Printed =>
        LET text == result.text
        IN  /\ Len(text) > 0
            /\ text[1] # "" /\ text[Len(text)] # ""
            /\ \A i \in 1..(Len(text) - 1) : text[i] = "" => text[i + 1] # ""
            /\ Occurrences(text, "") = ExpectedBlocks - 1
            /\ LET sections == SectionOfLines(text, SectionLines)
               IN  \A i \in 1..(Len(sections) - 1) :
                      sections[i] <= sections[i + 1]

\* a schema with a type of every kind has been printed with the schema
\* block and the directive definitions
C15_Witness ==
    /\ Printed
    /\ result.options = DefaultPrinterOptions
    /\ \A k \in 1..Len(SectionLines) :
          \E i \in 1..Len(result.text) : result.text[i] \in SectionLines[k]

\* the names of the root types of the printed schema ("" for none)
RootNames ==
    [query |-> heap[schemas[1].query].name,
     mutation |-> schemas[1].mutation,
     subscription |-> schemas[1].subscription]

\* a root type that exists has another name than the default one
NonDefaultRoot ==
    \/ RootNames.query # "Query"
    \/ RootNames.mutation \notin {"", "Mutation"}
    \/ RootNames.subscription \notin {"", "Subscription"}

\* C16: PrintSchema emits the schema block iff IncludeSchemaDefinition is
\* set or a root type has a non-default name; the block is the first
\* section, its first line carries the schema-level applied directives
\* sorted by name (none: `schema {`), and it lists query, mutation and
\* subscription in this order, each only when that root type exists.
C16_SchemaBlock ==
    Printed =>
        IF result.options.IncludeSchemaDefinition \/ NonDefaultRoot
        THEN /\ result.text[1] =
                   (IF Len(schemas[1].applied) = 0 THEN "schema {"
                    ELSE "schema @contact(name: \"team\", url: \"url\", description: \"notes\") @tag(name: \"red\") {")
             /\ Block(result.text, result.text[1]) =
                   << "  query: " \o RootNames.query >>
                   \o (IF RootNames.mutation = "" THEN <<>>
                       ELSE << "  mutation: " \o RootNames.mutation >>)
                   \o (IF RootNames.subscription = "" THEN <<>>
                       ELSE << "  subscription: " \o RootNames.subscription >>)
             /\ \A line \in SchemaLines : Occurrences(result.text, line) <= 1
        ELSE \A i \in 1..Len(result.text) :
                /\ result.text[i] \notin SchemaLines
                /\ result.text[i] # "  query: " \o RootNames.query

\* a schema without schema-level applied directives and with a mutation
\* root of a non-default name has been printed without the option
C16_Witness ==
    /\ Printed
    /\ ~result.options.IncludeSchemaDefinition
    /\ RootNames.query = "Query" /\ RootNames.mutation = "MyMutation"
    /\ result.text[1] = "schema {"

\* the lines of the text that define a directive, in the order of the text
DirectiveLinesOf(text) ==
    SelectSeq(text, LAMBDA line :
        \E n \in DOMAIN DirectiveLine : line = DirectiveLine[n])

\* C17: directive definitions are emitted iff IncludeDirectiveDefinition
\* is set; then there is one definition for every directive registered on
\* the schema, in ascending order of the names, with `repeatable` exactly
\* for the repeatable ones (key, link, tag), without parentheses for the
\* ones without arguments (inaccessible, shareable) and with the locations
\* joined by " | " in the order of their declaration.
C17_DirectiveDefinitions ==
    Printed =>
        DirectiveLinesOf(result.text) =
            IF ~result.options.IncludeDirectiveDefinition THEN <<>>
            ELSE IF Len(schemas[1].directives) = 2
            THEN << DirectiveLine.key, DirectiveLine.tag >>
            ELSE << DirectiveLine.contact, DirectiveLine.inaccessible,
                    DirectiveLine.key, DirectiveLine.link,
                    DirectiveLine.shareable, DirectiveLine.tag >>

\* a schema whose six directives are registered in another order than the
\* one of their names has been printed with their definitions
C17_Witness ==
    /\ Printed
    /\ result.options.IncludeDirectiveDefinition
    /\ Len(schemas[1].directives) = 6
    /\ Directives(schemas[1])[1].name = "tag"
    /\ HasLine(result.text, DirectiveLine.shareable)

\* the position of a line the text has once
IndexOf(text, line) == CHOOSE i \in 1..Len(text) : text[i] = line

\* the kind of the type registered under the name
KindOf(name) == Deref(heap, schemas[1].typeMap[name]).kind

\* C18: in the text of PrintSchema the types of one kind come in ascending
\* order of their names, the fields of an object, an interface and an
\* input object in ascending order of the field names, the values of an
\* enum in ascending order of their names and the members of a union in
\* ascending order of their names, whatever the order of declaration or of
\* the ranges over the maps.
C18_SortedByName ==
    Printed =>
        /\ \A a, b \in PrintedNames :
              (KindOf(a) = KindOf(b) /\ StrLess(a, b)) =>
                  IndexOf(result.text, HeaderLine[a])
                      < IndexOf(result.text, HeaderLine[b])
        /\ Registers("Book") =>
              Block(result.text, HeaderLine.Book)
                  = << "  id: ID!", "  name: String" >>
        /\ Registers("Product") =>
              Block(result.text, HeaderLine.Product)
                  = << "  description: String", "  id: ID!" >>
        /\ Registers("Entity") =>
              Block(result.text, HeaderLine.Entity)
                  = << "  id: ID!", "  name: String" >>
        /\ Registers("Paging") =>
              Block(result.text, HeaderLine.Paging)
                  = << "  limit: Int", "  offset: Int" >>
        /\ Registers("Filter") =>
              Block(result.text, HeaderLine.Filter)
                  = << "  id: ID!", "  \"name field\"",
                       "  name: String @tag(name: \"blue\")" >>
        /\ Registers("Animal") =>
              Block(result.text, HeaderLine.Animal) = << "  cat", "  dog" >>
        /\ Registers("Media") =>
              HasLine(result.text, "union Media = Book | Product")
        /\ Registers("SearchResult") =>
              HasLine(result.text, "union SearchResult = Product | User")

\* a schema with two types of every kind, declared against the order of
\* their names, has been printed
C18_Witness ==
    /\ Printed
    /\ {"Animal", "Paging", "Entity", "Node", "Book", "Product", "Media",
        "_Any"} \subseteq DOMAIN schemas[1].typeMap
    /\ IndexOf(result.text, HeaderLine.Entity)
          < IndexOf(result.text, HeaderLine.Node)

\* C19 (as claimed): the interfaces behind `implements` are printed in
\* ascending order of their names, whatever the order of their declaration
\* on the object: Book, which declares Node, Entity, prints Entity in front
\* of Node.
C19_InterfacesSorted ==
    (Printed /\ Registers("Book")) =>
        \/ HasLine(result.text, "type Book implements Entity, Node {")
        \/ HasLine(result.text, "type Book implements Entity & Node {")

\* C20: the applied directives of one element are rendered in ascending
\* order of their names, each behind one space (User declares tag, key; the
\* schema tag, contact; fresh shareable, external; green tag, cost); the
\* arguments of one applied directive keep the order of their declaration
\* (contact: name, url, description); an applied directive without
\* arguments prints as `@name`, and an element without applied directives
\* prints no `@`.
C20_AppliedDirectives ==
    Printed =>
        /\ Registers("User") =>
              HasLine(result.text,
                  "type User @key(fields: \"id\", resolvable: true) @tag(name: \"red\") {")
        /\ (SchemaBlockPrinted /\ Len(schemas[1].applied) = 2) =>
              result.text[1] =
                  "schema @contact(name: \"team\", url: \"url\", description: \"notes\") @tag(name: \"red\") {"
        /\ (SchemaBlockPrinted /\ Len(schemas[1].applied) = 0) =>
              result.text[1] = "schema {"
        /\ Registers("Legacy") =>
              /\ HasLine(result.text, "type Legacy {")
              /\ HasLine(result.text, "  fresh: String @external @shareable")
        /\ Registers("Color") =>
              /\ HasLine(result.text, "  blue @inaccessible")
              /\ HasLine(result.text,
                     "  green @deprecated(reason: \"use blue\") @cost(weight: 1) @tag(name: \"red\")")
        /\ Registers("Animal") =>
              Block(result.text, "enum Animal {") = << "  cat", "  dog" >>
        /\ Registers("Paging") =>
              Block(result.text, "input Paging {")
                  = << "  limit: Int", "  offset: Int" >>
        /\ Registers("Entity") => HasLine(result.text, "interface Entity {")
        /\ Registers("Media") =>
              HasLine(result.text, "union Media = Book | Product")

\* a schema whose applied directives are declared against the order of
\* their names has been printed, with elements without applied directives
C20_Witness ==
    /\ Printed
    /\ Len(schemas[1].applied) = 2
    /\ schemas[1].applied[1].name = "tag"
    /\ Registers("Legacy") /\ Registers("Animal")
    /\ result.text[1] =
          "schema @contact(name: \"team\", url: \"url\", description: \"notes\") @tag(name: \"red\") {"

\* C21 (as claimed): an argument whose value is a list renders as
\* `name: [v1, v2, ...]` for every length of the list, a list of one
\* element included (`names: ["a"]`), so that the list ["a"] and the string
\* "a" render differently.
C21_ListValuesBracketed ==
    Printed =>
        /\ Registers("Two") =>
              HasLine(result.text, "scalar Two @scopes(names: [\"a\", \"b\"])")
        /\ Registers("Mixed") =>
              HasLine(result.text, "scalar Mixed @scopes(names: [\"a\", 1, true])")
        /\ Registers("One") =>
              HasLine(result.text, "scalar One @scopes(names: [\"a\"])")
        /\ Registers("Bare") =>
              HasLine(result.text, "scalar Bare @scopes(names: \"a\")")

\* the n lines of the text in front of the line (fewer at the head of the
\* text)
Before(text, line, n) ==
    LET i == IndexOf(text, line)
    IN  SubSeq(text, IF i > n THEN i - n ELSE 1, i - 1)

\* C22: a description of one line is printed as one double-quoted line
\* directly in front of its element; a description of several lines as the
\* opening `"""`, every line of the description and the closing `"""`,
\* each on a line of its own; these lines carry no indentation in front of
\* a type or a directive definition and two spaces in front of a field, an
\* input field or an enum value; an element without description has no
\* such line in front of it.
C22_Descriptions ==
    Printed =>
        LET text == result.text
        IN  /\ Registers("Shape") =>
                  /\ Before(text, "enum Shape {", 4)
                        = << "\"\"\"", "Shapes", "of the plane", "\"\"\"" >>
                  /\ Block(text, "enum Shape {")
                        = << "  \"\"\"", "  A circle", "  is round", "  \"\"\"",
                             "  circle",
                             "  dot",
                             "  \"Four sides\"",
                             "  square" >>
            /\ Registers("Note") =>
                  Block(text, "input Note {")
                      = << "  \"\"\"", "  The body", "  of the note", "  \"\"\"",
                           "  body: String",
                           "  \"The title\"",
                           "  title: String" >>
            /\ Registers("Manual") =>
                  /\ Before(text, "type Manual {", 1) = << "\"A manual\"" >>
                  /\ Block(text, "type Manual {")
                        = << "  \"The cover\"",
                             "  cover: String",
                             "  index: String",
                             "  \"\"\"", "  The page", "  ", "  counted from 1",
                             "  \"\"\"",
                             "  page: Int" >>
            /\ Registers("Readable") =>
                  /\ Before(text, "interface Readable {", 4)
                        = << "\"\"\"", "Readable", "things", "\"\"\"" >>
                  /\ Block(text, "interface Readable {")
                        = << "  \"\"\"", "  The title", "  of the thing",
                             "  \"\"\"",
                             "  title: String" >>
            /\ Registers("Paper") =>
                  Before(text, "union Paper = Book | Manual", 1)
                      = << "\"Book or manual\"" >>
            /\ Registers("Filter") =>
                  Before(text, "input Filter {", 4)
                      = << "\"\"\"", "Input object", "of two lines", "\"\"\"" >>
            /\ Registers("Color") =>
                  /\ Before(text, HeaderLine.Color, 1) = << "\"Colors\"" >>
                  /\ Before(text, "  blue @inaccessible", 1)
                        = << "  \"Replaces red\"" >>
            /\ (result.options.IncludeDirectiveDefinition
                  /\ Len(schemas[1].directives) = 6) =>
                  /\ Before(text, DirectiveLine.contact, 1)
                        = << "\"Provides contact information of the owner responsible for this subgraph schema.\"" >>
                  /\ Before(text, DirectiveLine.link, 1) = << "" >>
            /\ \A name \in PrintedNames :
                  Len(Deref(heap, schemas[1].typeMap[name]).description) = 0 =>
                      Before(text, HeaderLine[name], 1) \in {<<>>, << "" >>}

\* a schema with descriptions of two lines on a type, a field, an input
\* field and an enum value has been printed
C22_Witness ==
    /\ Printed
    /\ Registers("Shape") /\ Registers("Note") /\ Registers("Manual")
    /\ HasLine(result.text, "  The page")
    /\ HasLine(result.text, "Shapes")

\* C23 (as claimed): PrintSchema returns a text for every schema with a
\* query root whose applied-directive argument values are strings,
\* booleans, numbers, lists of these (nested or empty) or absent: no call
\* aborts.
C23_PrintSchemaTotal ==
    result.op = "PrintSchema" => result.text # << "panic" >>

\* C24 (as claimed): a list of lists renders as one bracket with the leaf
\* values from left to right and without inner brackets ([[a, b], [c]] as
\* `["a", "b", "c"]`, [[a]] as `["a"]`), and only one level of nesting is
\* flattened: the list in a list in a list of Deep does not render as the
\* bracket of its leaves.
C24_NestedListFlattenedOneLevel ==
    Printed =>
        /\ Registers("Nested") =>
              HasLine(result.text,
                  "scalar Nested @scopes(names: [\"a\", \"b\", \"c\"])")
        /\ Registers("Wrapped") =>
              HasLine(result.text, "scalar Wrapped @scopes(names: [\"a\"])")
        /\ Registers("Deep") =>
              ~HasLine(result.text,
                  "scalar Deep @scopes(names: [\"a\", \"b\", \"c\"])")

\* C25: a call of PrintSchema, whatever its options, leaves the heap and
\* the schema as they were: the names of the type map, the order of the
\* enum values, of the union members, of the applied directives of every
\* element and of the schema's directive list, and the field maps.
C25_NoSideEffect ==
    [][result'.op = "PrintSchema" =>
          /\ heap' = heap
          /\ DOMAIN schemas'[1].typeMap = DOMAIN schemas[1].typeMap
          /\ \A n \in DOMAIN schemas[1].typeMap :
                schemas'[1].typeMap[n] = schemas[1].typeMap[n]
          /\ schemas'[1].applied = schemas[1].applied
          /\ schemas'[1].directives = schemas[1].directives
          /\ schemas' = schemas]_vars

\* PrintSchema has printed, with the schema block and the directive
\* definitions, a schema whose applied directives, directives, enum values
\* and union members are declared against the order of their names
C25_Witness ==
    /\ Printed
    /\ result.options = DefaultPrinterOptions
    /\ Len(schemas[1].applied) = 2 /\ schemas[1].applied[1].name = "tag"
    /\ Directives(schemas[1])[1].name = "tag"
    /\ Registers("Color") /\ Registers("SearchResult")
    /\ schemas[1].typeMap["Color"].values[1].name = "red"
    /\ schemas[1].typeMap["SearchResult"].types = << "User", "Product" >>
    /\ HasLine(result.text, "union SearchResult = Product | User")

C27_StableForEqualNames ==
    (Printed /\ Registers("Shelf")) =>
        Block(result.text, "type Shelf {")
            = << "  label: String @cost(weight: 1) @cost(weight: 2) @external @inaccessible @shareable @tag(name: \"a\") @tag(name: \"b\")",
                 "  spot: String @external @tag(name: \"b\") @tag(name: \"a\")" >>

\* C28: PrintSchema without IncludeSchemaDefinition on a schema whose root
\* types have the default names prints no schema block, and the text is
\* the one of the same schema without schema-level applied directives and
\* the one of the same schema with the federation @link among them: the
\* schema-level applied directives are in no line of the text.
C28_NoSchemaBlockNoSchemaDirectives ==
    (Printed /\ ~result.options.IncludeSchemaDefinition /\ ~NonDefaultRoot) =>
        LET bare == [schemas[1] EXCEPT !.applied = <<>>]
            linked == [schemas[1] EXCEPT
                          !.applied = @ \o << federationLinkAppliedDirective >>]
        IN  /\ result.text = PrintSchema(heap, bare, result.options, 0)
            /\ result.text = PrintSchema(heap, linked, result.options, 0)
            /\ \A i \in 1..Len(result.text) :
                  /\ result.text[i] \notin SchemaLines
                  /\ result.text[i] # "  query: Query"
                  /\ result.text[i] # printSchemaDefinition(heap, schemas[1])[1]
                  /\ result.text[i] # printSchemaDefinition(heap, linked)[1]

\* a schema with the default root names that carries schema-level applied
\* directives has been printed without IncludeSchemaDefinition
C28_Witness ==
    /\ Printed
    /\ ~result.options.IncludeSchemaDefinition
    /\ ~NonDefaultRoot
    /\ Len(schemas[1].applied) = 2
    /\ schemas[1].mutation = "Mutation"
    /\ result.options.IncludeDirectiveDefinition
    /\ result.text[1] = "\"Provides contact information of the owner responsible for this subgraph schema.\""

====
